---- MODULE Spec2Model ----
(***************************************************************************)
(* The bulk data-acquisition engine of A-share-replay:                     *)
(*   src/downloader.py          StockDataDownloader (paginated tick data)  *)
(*   src/download_pre_close.py  download_pre_close_parallel (point lookup) *)
(*                                                                         *)
(* The specifications below share one set of definitions:                  *)
(*   SpecFetch      one call of fetch_single_stock, with its server-tries  *)
(*                  recorded in the history variable trace;                *)
(*   SpecBatch      one batch of futures on its thread pool;               *)
(*   Spec           one run of download_all_stocks or of                   *)
(*                  download_pre_close_parallel, all rounds;               *)
(*   SpecDeep       runs of download_all_stocks with many retry rounds;    *)
(*   SpecLookup     runs of download_pre_close_parallel with the calls of  *)
(*                  get_stock_pre_close_single recorded in trace;          *)
(*   SpecNoData     runs of download_all_stocks for a date without data,   *)
(*                  on tables of up to UniverseRows rows;                  *)
(*   FairSpec       Spec under weak fairness of its steps;                 *)
(*   SpecRange      download_date_range: one run per date on one object;   *)
(*   SpecConn       the calls of a batch, one server-try at a time;        *)
(*   SpecAddr       get_stock_pre_close_single on every short code;        *)
(*   SpecPair       download_all_stocks on the table of two distinct codes;*)
(*   SpecPairDeep   the same table, with many retry rounds.                *)
(***************************************************************************)
EXTENDS Integers, Sequences, FiniteSets, TLC

\* ---------------------------------------------------------------- bounds
\* rows of the universe table / entries of stock_codes
MaxRows == 2
\* full pages a server serves before the page that ends a server-try (SpecFetch)
MaxFullPages == 2
\* the same for the server-tries inside a run (Spec)
RunFullPages == 0
\* largest max_retry / max_retries a run is started with
MaxRetry == 1
\* rows of the largest universe table whose first download is examined
\* (SpecNoData)
UniverseRows == 10
\* largest max_retry of the runs with many retry rounds (SpecDeep,
\* SpecPairDeep), and rows of the largest table of SpecDeep
DeepRetry == 3
DeepRows == 1
\* entries of the longest stock_codes list of the runs whose calls are
\* recorded (SpecLookup)
LookupRows == 2
\* weekday dates of the longest download_date_range (SpecRange)
MaxDates == 2
\* characters of the longest stock code whose address is built (SpecAddr)
AddrLen == 2

\* ------------------------------------------------------ program constants
batch_size == 2000
retry_count == 3
\* floor of retry_workers in download_pre_close_parallel
FloorWorkers == 5

\* class attribute TDX_SERVERS: the configured servers, by position
ConfiguredServers == <<1, 2, 3>>

\* stock codes after zfill: sequences of digits (two digits stand for six)
Codes == {<<6, 0>>, <<0, 1>>}

\* max_workers values a run is started with
WorkerChoices == {1, 2}

\* the sets of servers whose probe answers that a run is explored with
\* (none, the second only, all but the second, all)
ProbeChoices == {{}, {2}, {1, 3}, {1, 2, 3}}

Range(s) == {s[i] : i \in 1..Len(s)}

Min(a, b) == IF a < b THEN a ELSE b
Max(a, b) == IF a > b THEN a ELSE b

RECURSIVE SumLens(_)
SumLens(s) == IF s = <<>> THEN 0 ELSE Head(s).len + SumLens(Tail(s))

\* all sequences over S of length 0..n
SeqsUpTo(S, n) == UNION {[1..k -> S] : k \in 0..n}

\* ------------------------------------------------------------- messages
\* The third component of fetch_single_stock's result tuple, by its text:
\*   exists  "文件已存在，跳过"            saved   "成功下载 n 条数据"
\*   nodata  "当日无数据 (Exchange:m)"     failed  "尝试均失败. 错误: err"
Msg(kind, n, err) == [kind |-> kind, n |-> n, err |-> err]

\* an exception that left fetch_single_stock (future.result() re-raises it)
Raised == [raised |-> TRUE, ok |-> FALSE, msg |-> Msg("raised", 0, "None")]
Returned(ok, msg) == [raised |-> FALSE, ok |-> ok, msg |-> msg]
NoResult == [raised |-> FALSE, ok |-> FALSE, msg |-> Msg("pending", 0, "None")]

\* ------------------------------------------------- the remote tick server
\* What one server does during one server-try:
\*   connect  "ok" (True), "refused" (False) or "raise"
\*   pages    its answers to the page requests at offsets 0, B, 2B, ...:
\*            [t |-> "page", len |-> n], the sentinel [t |-> "none"], or
\*            [t |-> "raise"]
Page(n) == [t |-> "page", len |-> n]
SentinelNone == [t |-> "none", len |-> 0]
RaiseResp == [t |-> "raise", len |-> 0]

\* page lengths below batch_size a server ends with: in a run, and in the
\* single call of SpecFetch
RunShortLens == {0, 1}
ShortLens == {0, 1, batch_size - 1}

FullPages(k) == [i \in 1..k |-> Page(batch_size)]

\* the behaviours of one server with at most maxFull full pages
Scripts(maxFull, shorts) ==
    {[connect |-> c, pages |-> <<>>] : c \in {"refused", "raise"}}
    \cup {[connect |-> "ok", pages |-> Append(FullPages(k), last)] :
            k \in 0..maxFull,
            last \in {SentinelNone, RaiseResp} \cup {Page(n) : n \in shorts}}

\* the server behaviours a call is explored with: in SpecFetch, and in a run
FetchScripts == Scripts(MaxFullPages, ShortLens)
RunScripts == Scripts(RunFullPages, RunShortLens)
\* and in SpecBatch and SpecDeep: servers that end with their first page
BatchScripts == Scripts(0, RunShortLens)

\* api.get_history_transaction_data(market, code, start, batch_size, date):
\* the server's answer at offset start; past its last page it has no records
GetHistoryTransactionData(pages, start) ==
    LET k == (start \div batch_size) + 1
    IN  IF k <= Len(pages) THEN pages[k] ELSE Page(0)

\* (variant: the sentinel None is taken for an empty page)
RECURSIVE PageLoop_NoneEndsData(_, _, _, _)
PageLoop_NoneEndsData(pages, start, all_data, offsets) ==
    LET data == GetHistoryTransactionData(pages, start)
        offs == Append(offsets, start)
    IN  IF data.t = "raise"
        THEN [end |-> "exception", all_data |-> all_data, offsets |-> offs]
        ELSE IF data.t = "none" \/ data.len = 0
        THEN [end |-> "break", all_data |-> all_data, offsets |-> offs]
        ELSE IF data.len < batch_size
        THEN [end |-> "break", all_data |-> Append(all_data, data), offsets |-> offs]
        ELSE PageLoop_NoneEndsData(pages, start + batch_size, Append(all_data, data), offs)

\* (variant: a full page is taken for the last page, <= for <)
PageLoop_FullPageEnds(pages, start, all_data, offsets) ==
    LET data == GetHistoryTransactionData(pages, start)
        offs == Append(offsets, start)
    IN  IF data.t = "raise"
        THEN [end |-> "exception", all_data |-> all_data, offsets |-> offs]
        ELSE IF data.t = "none"
        THEN [end |-> "sentinel", all_data |-> all_data, offsets |-> offs]
        ELSE IF data.len = 0
        THEN [end |-> "break", all_data |-> all_data, offsets |-> offs]
        ELSE [end |-> "break", all_data |-> Append(all_data, data), offsets |-> offs]

\* the while True loop of fetch_single_stock; all_data is the sequence of
\* the pages appended so far, offsets the starts requested so far
RECURSIVE PageLoop(_, _, _, _)
PageLoop(pages, start, all_data, offsets) ==
    LET data == GetHistoryTransactionData(pages, start)
        offs == Append(offsets, start)
    IN  IF data.t = "raise"
        THEN [end |-> "exception", all_data |-> all_data, offsets |-> offs]
        ELSE IF data.t = "none"
        THEN [end |-> "sentinel", all_data |-> all_data, offsets |-> offs]
        ELSE IF data.len = 0
        THEN [end |-> "break", all_data |-> all_data, offsets |-> offs]
        ELSE IF data.len < batch_size
        THEN [end |-> "break", all_data |-> Append(all_data, data), offsets |-> offs]
        ELSE PageLoop(pages, start + batch_size, Append(all_data, data), offs)

\* (variant: the handler of lines 172-178 does not disconnect)
TryServer_LeaksOnException(script) ==
    IF script.connect = "raise"
    THEN [kind |-> "exception", offsets |-> <<>>, all_data |-> <<>>,
          connected |-> FALSE, closed |-> FALSE, wrote |-> FALSE]
    ELSE IF script.connect = "refused"
    THEN [kind |-> "refused", offsets |-> <<>>, all_data |-> <<>>,
          connected |-> FALSE, closed |-> FALSE, wrote |-> FALSE]
    ELSE LET r == PageLoop(script.pages, 0, <<>>, <<>>)
         IN  IF r.end = "exception"
             THEN [kind |-> "exception", offsets |-> r.offsets, all_data |-> r.all_data,
                   connected |-> TRUE, closed |-> FALSE, wrote |-> FALSE]
             ELSE IF r.end = "sentinel"
             THEN [kind |-> "sentinel", offsets |-> r.offsets, all_data |-> r.all_data,
                   connected |-> TRUE, closed |-> TRUE, wrote |-> FALSE]
             ELSE IF r.all_data # <<>>
             THEN [kind |-> "saved", offsets |-> r.offsets, all_data |-> r.all_data,
                   connected |-> TRUE, closed |-> TRUE, wrote |-> TRUE]
             ELSE [kind |-> "nodata", offsets |-> r.offsets, all_data |-> r.all_data,
                   connected |-> TRUE, closed |-> TRUE, wrote |-> FALSE]

\* One iteration of `for server in self.TDX_SERVERS[:retry_count]`:
\*   kind      refused / exception / sentinel (the try failed, continue),
\*             saved (artifact written, return True) or nodata (return False)
\*   connected the connect call returned True, closed api.disconnect() ran
TryServer(script) ==
    IF script.connect = "raise"
    THEN [kind |-> "exception", offsets |-> <<>>, all_data |-> <<>>,
          connected |-> FALSE, closed |-> TRUE, wrote |-> FALSE]
    ELSE IF script.connect = "refused"
    THEN [kind |-> "refused", offsets |-> <<>>, all_data |-> <<>>,
          connected |-> FALSE, closed |-> FALSE, wrote |-> FALSE]
    ELSE LET r == PageLoop(script.pages, 0, <<>>, <<>>)
         IN  IF r.end = "exception"
             THEN [kind |-> "exception", offsets |-> r.offsets, all_data |-> r.all_data,
                   connected |-> TRUE, closed |-> TRUE, wrote |-> FALSE]
             ELSE IF r.end = "sentinel"
             THEN [kind |-> "sentinel", offsets |-> r.offsets, all_data |-> r.all_data,
                   connected |-> TRUE, closed |-> TRUE, wrote |-> FALSE]
             ELSE IF r.all_data # <<>>
             THEN [kind |-> "saved", offsets |-> r.offsets, all_data |-> r.all_data,
                   connected |-> TRUE, closed |-> TRUE, wrote |-> TRUE]
             ELSE [kind |-> "nodata", offsets |-> r.offsets, all_data |-> r.all_data,
                   connected |-> TRUE, closed |-> TRUE, wrote |-> FALSE]

\* self.TDX_SERVERS[:retry_count]
ServerSlice(servers) == SubSeq(servers, 1, Min(retry_count, Len(servers)))

\* (variant: no failover, the first failed try ends the call)
ServerLoop_NoFailover(pool, scripts, i, last_error, tries) ==
    IF i > Len(pool)
    THEN [res |-> Returned(FALSE, Msg("failed", 0, last_error)), tries |-> tries]
    ELSE LET r == TryServer(scripts[i])
             tr == Append(tries, [server |-> pool[i], script |-> scripts[i], r |-> r])
         IN  IF r.kind = "saved"
             THEN [res |-> Returned(TRUE, Msg("saved", SumLens(r.all_data), "None")),
                   tries |-> tr]
             ELSE IF r.kind = "nodata"
             THEN [res |-> Returned(FALSE, Msg("nodata", 0, "None")), tries |-> tr]
             ELSE [res |-> Returned(FALSE, Msg("failed", 0, r.kind)), tries |-> tr]

\* (variant: all_data is created once, before the server loop, so the
\* records of the earlier tries are still in it when a later try saves)
RECURSIVE CarriedRecords(_)
CarriedRecords(tries) ==
    IF tries = <<>> THEN 0
    ELSE SumLens(Head(tries).r.all_data) + CarriedRecords(Tail(tries))

RECURSIVE ServerLoop_CarriesData(_, _, _, _, _)
ServerLoop_CarriesData(pool, scripts, i, last_error, tries) ==
    IF i > Len(pool)
    THEN [res |-> Returned(FALSE, Msg("failed", 0, last_error)), tries |-> tries]
    ELSE LET r == TryServer(scripts[i])
             tr == Append(tries, [server |-> pool[i], script |-> scripts[i], r |-> r])
         IN  IF r.kind = "saved"
             THEN [res |-> Returned(TRUE, Msg("saved", CarriedRecords(tr), "None")),
                   tries |-> tr]
             ELSE IF r.kind = "nodata"
             THEN [res |-> Returned(FALSE, Msg("nodata", 0, "None")), tries |-> tr]
             ELSE ServerLoop_CarriesData(pool, scripts, i + 1, r.kind, tr)

\* the for loop over the servers from position i on; scripts[j] is what
\* server pool[j] does if it is tried; tries records the iterations run
RECURSIVE ServerLoop(_, _, _, _, _)
ServerLoop(pool, scripts, i, last_error, tries) ==
    IF i > Len(pool)
    THEN [res |-> Returned(FALSE, Msg("failed", 0, last_error)), tries |-> tries]
    ELSE LET r == TryServer(scripts[i])
             tr == Append(tries, [server |-> pool[i], script |-> scripts[i], r |-> r])
         IN  IF r.kind = "saved"
             THEN [res |-> Returned(TRUE, Msg("saved", SumLens(r.all_data), "None")),
                   tries |-> tr]
             ELSE IF r.kind = "nodata"
             THEN [res |-> Returned(FALSE, Msg("nodata", 0, "None")), tries |-> tr]
             ELSE ServerLoop(pool, scripts, i + 1, r.kind, tr)

\* fetch_single_stock from line 96 on, given what os.path.exists answered
FetchSingleStock(hasName, exists, servers, scripts) ==
    IF ~hasName
    THEN [res |-> Raised, tries |-> <<>>]
    ELSE IF exists
    THEN [res |-> Returned(TRUE, Msg("exists", 0, "None")), tries |-> <<>>]
    ELSE ServerLoop(ServerSlice(servers), scripts, 1, "None", <<>>)

\* ------------------------------------------------------ test_connectivity
\* the servers whose probe answered, in configured order
RECURSIVE TestConnectivity(_, _)
TestConnectivity(servers, alive) ==
    IF servers = <<>> THEN <<>>
    ELSE IF Head(servers) \in alive
         THEN <<Head(servers)>> \o TestConnectivity(Tail(servers), alive)
         ELSE TestConnectivity(Tail(servers), alive)

\* (variant: an empty probe result replaces the list as well)
ServersAfterProbe_NoFallback(servers, alive) == TestConnectivity(servers, alive)

\* download_all_stocks lines 198-203: self.TDX_SERVERS after the probe
ServersAfterProbe(servers, alive) ==
    LET valid_servers == TestConnectivity(servers, alive)
    IN  IF valid_servers # <<>> THEN valid_servers ELSE servers


\* ================================================================ state
VARIABLES
    prog,           \* entry point: "fetch", "tick" (download_all_stocks), "pre"
    pc,             \* position of the thread that runs the entry point
    stocks_df,      \* the universe table: the stock_code of each row, in order
    hasStockName,   \* the table has a stock_name column
    stock_codes,    \* argument of download_pre_close_parallel
    max_workers,    \* argument max_workers
    max_retry,      \* argument max_retry (max_retries in download_pre_close)
    progress_callback, \* argument progress_callback: "None", "returns", "raises"
    dates_left,     \* download_date_range: the weekday dates after the current one
    TDX_SERVERS,    \* self.TDX_SERVERS
    files,          \* codes c with <save_dir>/<c>.parquet on disk
    retry_round,    \* retry_round (0 during the first download); i + 1 in pre
    workers,        \* max_workers of the current ThreadPoolExecutor
    futures,        \* the futures of the current batch, in submission order
    batch_success,  \* success_count local to _download_batch
    batch_failed,   \* failed_list local to _download_batch
    success_count,  \* success_count of download_all_stocks
    failed_list,    \* failed_list of download_all_stocks
    results,        \* results local to _download_batch_internal
    failed_codes,   \* failed_codes local to _download_batch_internal
    all_results,    \* all_results of download_pre_close_parallel
    failed,         \* failed of download_pre_close_parallel
    report,         \* what _generate_report / the final prints were given
    failed_csv,     \* <output_dir>/failed_stocks.csv: present, and its rows
    hist,           \* history: probes, submissions, requests, writes, callbacks
    workersLog,     \* history: max_workers of every pool created so far
    okCount,        \* history: per table row, how often it was counted a success
    trace           \* history (SpecFetch): the server-tries of the call

cfgVars == <<prog, stocks_df, hasStockName, stock_codes, max_workers, max_retry,
             progress_callback, dates_left>>
batchVars == <<batch_success, batch_failed, results, failed_codes>>
runVars == <<success_count, failed_list, all_results, failed, report, failed_csv>>
vars == <<prog, pc, stocks_df, hasStockName, stock_codes, max_workers, max_retry,
          progress_callback, dates_left, TDX_SERVERS, files, retry_round, workers, futures,
          batch_success, batch_failed, success_count, failed_list, results,
          failed_codes, all_results, failed, report, failed_csv, hist, workersLog,
          okCount, trace>>

NoReport == [built |-> FALSE, total |-> 0, success |-> 0, failed |-> 0]
NoTrace == [called |-> FALSE, onDisk |-> FALSE, servers |-> <<>>, scripts |-> <<>>,
            tries |-> <<>>, res |-> NoResult, wrote |-> FALSE]

\* failed_stocks.csv: not in the output directory, or there with rows
\* (stock_code, reason); OldCsv is the file an earlier run left behind
NoCsv == [present |-> FALSE, rows |-> <<>>]
Csv(rows) == [present |-> TRUE, rows |-> rows]
OldCsv == Csv(<<[code |-> <<0, 1>>, msg |-> Msg("failed", 0, "refused")]>>)
\* what the output directory of a run holds of it when the run starts
CsvChoices == {NoCsv, OldCsv}

\* the history of a run that has not started, for a table of n rows:
\*   probes     calls of test_connectivity          alive  what the probe found
\*   submits    per row, its submissions to fetch_single_stock
\*   fails      per row, its attempts that were consumed as failures
\*   requests   per code, the HTTP requests sent for it
\*   writes     per code, the to_parquet calls on its artifact
\*   wasted     calls that found the artifact on disk and still tried a server
\*   pools      the values of self.TDX_SERVERS that server loops iterated over
\*   callbacks  the (completed, total) pairs progress_callback was called with
\*   reports    calls of _generate_report
\*   probed     the servers the latest test_connectivity connected to
\*   pauses     calls of time.sleep between two rounds
\*   last       per row, what its most recently consumed attempt returned
NoHist(n) ==
    [probes |-> 0, alive |-> {}, submits |-> [i \in 1..n |-> 0],
     fails |-> [i \in 1..n |-> 0],
     requests |-> [c \in Codes |-> 0], writes |-> [c \in Codes |-> 0],
     wasted |-> 0, pools |-> {}, callbacks |-> <<>>, reports |-> 0,
     probed |-> {}, pauses |-> 0, last |-> [i \in 1..n |-> NoResult]]

\* ------------------------------------------------------ ThreadPoolExecutor
\* executor.submit for every element of a list: one queued future each
\* (existed: what os.path.exists answered; onDisk: history, whether the
\* artifact was on disk when the call started)
\* conn is the position of the call in its server loop, for the runs that
\* follow a call server-try by server-try (SpecConn): tried, the iterations
\* begun; open, the connections it holds open; script, what the server of
\* the iteration in progress does; last_error; closed, the iteration has
\* passed api.disconnect() of line 142 and the test of line 145 and has
\* neither written nor returned yet; all_data, the pages it then holds
NoScript == [connect |-> "none", pages |-> <<>>]
NoConn == [tried |-> 0, open |-> 0, script |-> NoScript, last_error |-> "None",
           closed |-> FALSE, all_data |-> <<>>]

\* seq is the position of a finished call among those as_completed has been
\* told of and has not yielded: 0 for a call that finished before
\* as_completed was called
\* ret is the tuple a call that has written its artifact is about to return
\* (NoResult before the write and after the return)
Future(code, row) ==
    [code |-> code, row |-> row, st |-> "queued", existed |-> FALSE,
     onDisk |-> FALSE, res |-> NoResult, conn |-> NoConn, seq |-> 0,
     ret |-> NoResult]

Running == {t \in 1..Len(futures) : futures[t].st = "running"}

\* the calls submitted before call t whose body has not begun
Ahead(t) == {u \in 1..(t - 1) : futures[u].st = "queued"}

\* (variant: a thread per submitted call)
IdleWorker_Unbounded(ahead) == TRUE

\* ThreadPoolExecutor(max_workers=workers): the pool has at most `workers`
\* threads; each is busy with the call it runs or holds the call it took
\* from the queue, so a thread is left for a call with `ahead` calls before
\* it in the queue only while the calls running and those are fewer
IdleWorker(ahead) == Cardinality(Running) + ahead < workers

\* The threads take the calls from the work queue in submission order, but
\* a thread that has taken a call reaches the first line of its body when
\* the scheduler lets it: the bodies of the calls that threads hold begin
\* in any order.  A future stays "queued" until its body begins; call t
\* can be held by a thread when every call ahead of it is held too.
CanStart(t) ==
    /\ t \in 1..Len(futures)
    /\ futures[t].st = "queued"
    /\ IdleWorker(Cardinality(Ahead(t)))

\* ------------------------------------------------------------ as_completed
\* the finished futures the consuming loop has not taken
Done == {u \in 1..Len(futures) : futures[u].st = "done"}

\* set_result / set_exception in the worker thread: a call that ends before
\* the consuming thread calls as_completed is found finished by it (seq 0);
\* one that ends later is added to the end of the waiter's list
LastSeq ==
    CHOOSE m \in {0} \cup {futures[u].seq : u \in Done} :
        \A u \in Done : futures[u].seq <= m

CompletionSeq == IF pc = "batch" THEN LastSeq + 1 ELSE 0

\* as_completed yields the futures it found finished first, in the order of
\* a set, then the others in the order in which they finished
NextCompleted(t) ==
    /\ t \in Done
    /\ \/ futures[t].seq = 0
       \/ \A u \in Done : futures[u].seq >= futures[t].seq

\* _download_batch line 276, _download_batch_internal line 82: every call
\* of the batch has been submitted and the consuming thread calls
\* as_completed, which notes the futures that have finished by then
AsCompleted ==
    /\ (prog = "tick" \/ prog = "pre")
    /\ pc = "submitted"
    /\ pc' = "batch"
    /\ UNCHANGED <<cfgVars, TDX_SERVERS, files, retry_round, workers, futures,
                   batchVars, runVars, hist, workersLog, okCount, trace>>

\* (variant: the batch returns once every call has been handed to a worker)
AllConsumed_NoneQueued == \A t \in 1..Len(futures) : futures[t].st # "queued"

\* the loop over as_completed(futures) ends, and the with-block of the
\* executor is left, only when every future has finished and been taken
AllConsumed == \A t \in 1..Len(futures) : futures[t].st = "consumed"

\* =============================================== downloader.py, the workers
\* (variant: the artifact check is skipped)
OsPathExists_Never(code) == FALSE

\* os.path.exists(file_path) for the artifact of code
OsPathExists(code) == code \in files

\* fetch_single_stock lines 96-103 on a worker thread that holds call t:
\* the body begins and checks the artifact
FetchStart(t) ==
    /\ (prog = "fetch" \/ prog = "tick")
    /\ CanStart(t)
    /\ futures' = [futures EXCEPT ![t].st = "running",
                                  ![t].existed = OsPathExists(futures[t].code),
                                  ![t].onDisk = (futures[t].code \in files)]
    /\ UNCHANGED <<cfgVars, pc, TDX_SERVERS, files, retry_round, workers, batchVars,
                   runVars, hist, workersLog, okCount, trace>>

\* a call that returns before the server loop consults no server
ScriptChoices(t, S) ==
    IF ~hasStockName \/ futures[t].existed THEN {<<>>}
    ELSE [1..Len(ServerSlice(TDX_SERVERS)) -> S]

\* (variant: the artifact is written before all_data is tested, so a call
\* that returns "no data" leaves an empty artifact)
CallOutcome_WritesEmpty(t, scripts, keep) ==
    LET out == FetchSingleStock(hasStockName, futures[t].existed, TDX_SERVERS, scripts)
        wrote == out.res.msg.kind = "saved" \/ out.res.msg.kind = "nodata"
    IN  [res |-> out.res,
         wrote |-> wrote,
         tried |-> out.tries # <<>>,
         rec |-> IF keep
                 THEN [called |-> TRUE, onDisk |-> futures[t].onDisk,
                       servers |-> TDX_SERVERS, scripts |-> scripts,
                       tries |-> out.tries, res |-> out.res, wrote |-> wrote]
                 ELSE trace]

\* fetch_single_stock lines 105-180 for future t against servers behaving as
\* scripts: the result, and the record of the call that trace keeps if asked
CallOutcome(t, scripts, keep) ==
    LET out == FetchSingleStock(hasStockName, futures[t].existed, TDX_SERVERS, scripts)
        wrote == out.res.msg.kind = "saved"
    IN  [res |-> out.res,
         wrote |-> wrote,
         tried |-> out.tries # <<>>,
         rec |-> IF keep
                 THEN [called |-> TRUE, onDisk |-> futures[t].onDisk,
                       servers |-> TDX_SERVERS, scripts |-> scripts,
                       tries |-> out.tries, res |-> out.res, wrote |-> wrote]
                 ELSE trace]

\* fetch_single_stock lines 105-180: the server loop.  A call that saves
\* has written its artifact (to_parquet, line 166) and has not returned: it
\* is still running, and the other threads see the file.  A call that
\* writes nothing returns (lines 103, 169, 180).
\* S is the set of server behaviours, keep says whether trace records the call
FetchFinish(t, S, keep) ==
    /\ (prog = "fetch" \/ prog = "tick")
    /\ t \in 1..Len(futures)
    /\ futures[t].st = "running"
    /\ futures[t].ret = NoResult
    /\ \E o \in {CallOutcome(t, scripts, keep) : scripts \in ScriptChoices(t, S)} :
         /\ futures' = IF o.wrote
                       THEN [futures EXCEPT ![t].ret = o.res]
                       ELSE [futures EXCEPT ![t].st = "done", ![t].res = o.res,
                                            ![t].seq = CompletionSeq]
         /\ files' = IF o.wrote THEN files \cup {futures[t].code} ELSE files
         /\ hist' = [hist EXCEPT
                        !.writes[futures[t].code] = IF o.wrote THEN @ + 1 ELSE @,
                        !.wasted = IF futures[t].onDisk /\ o.tried THEN @ + 1 ELSE @,
                        !.pools = IF o.tried THEN @ \cup {TDX_SERVERS} ELSE @]
         /\ trace' = o.rec
    /\ UNCHANGED <<cfgVars, pc, TDX_SERVERS, retry_round, workers, batchVars, runVars,
                   workersLog, okCount>>

\* fetch_single_stock line 168: the call that has written its artifact
\* returns its tuple, and its future is finished
FetchReturn(t) ==
    /\ (prog = "fetch" \/ prog = "tick")
    /\ t \in 1..Len(futures)
    /\ futures[t].st = "running"
    /\ futures[t].ret # NoResult
    /\ futures' = [futures EXCEPT ![t].st = "done", ![t].res = futures[t].ret,
                                  ![t].seq = CompletionSeq, ![t].ret = NoResult]
    /\ UNCHANGED <<cfgVars, pc, TDX_SERVERS, files, retry_round, workers, batchVars,
                   runVars, hist, workersLog, okCount, trace>>

\* ---------------------------------- the same call, one server-try at a time
\* lines 108-115: the next iteration of the server loop creates its own
\* TdxHq_API and connects; a refused or raising connect ends the iteration
ConnectServer(t, S) ==
    /\ prog = "tick"
    /\ t \in 1..Len(futures)
    /\ futures[t].st = "running"
    /\ hasStockName
    /\ ~futures[t].existed
    /\ futures[t].ret = NoResult
    /\ futures[t].conn.script = NoScript
    /\ ~futures[t].conn.closed
    /\ futures[t].conn.tried < Len(ServerSlice(TDX_SERVERS))
    /\ \E script \in S :
         LET r == TryServer(script)
             c == futures[t].conn
         IN  futures' = [futures EXCEPT ![t].conn =
                 IF r.connected
                 THEN [c EXCEPT !.tried = @ + 1, !.open = @ + 1, !.script = script]
                 ELSE [c EXCEPT !.tried = @ + 1, !.last_error = r.kind]]
    /\ hist' = [hist EXCEPT !.pools = @ \cup {TDX_SERVERS}]
    /\ UNCHANGED <<cfgVars, pc, TDX_SERVERS, files, retry_round, workers, batchVars,
                   runVars, workersLog, okCount, trace>>

\* lines 117-146 and 172-178 of the iteration that connected: the page loop
\* and api.disconnect() (line 142, or line 175 after an exception).  After
\* an exception or the sentinel the iteration is over (continue); otherwise
\* the connection is closed and the call holds all_data, with the artifact
\* not yet written and nothing returned.
PageAndClose(t) ==
    /\ prog = "tick"
    /\ t \in 1..Len(futures)
    /\ futures[t].st = "running"
    /\ futures[t].conn.script # NoScript
    /\ LET r == TryServer(futures[t].conn.script)
           c == [futures[t].conn EXCEPT !.script = NoScript,
                                        !.open = IF r.closed THEN @ - 1 ELSE @]
       IN  futures' = [futures EXCEPT ![t].conn =
               IF r.kind = "saved" \/ r.kind = "nodata"
               THEN [c EXCEPT !.closed = TRUE, !.all_data = r.all_data]
               ELSE [c EXCEPT !.last_error = r.kind]]
    /\ UNCHANGED <<cfgVars, pc, TDX_SERVERS, files, retry_round, workers, batchVars,
                   runVars, hist, workersLog, okCount, trace>>

\* lines 149-166 after the disconnect, all_data not empty: the DataFrame is
\* built and to_parquet writes the artifact; the call has not returned (the
\* return of line 168 is FetchReturn)
SaveArtifact(t) ==
    /\ prog = "tick"
    /\ t \in 1..Len(futures)
    /\ futures[t].st = "running"
    /\ futures[t].conn.closed
    /\ futures[t].conn.all_data # <<>>
    /\ futures' = [futures EXCEPT
                      ![t].conn = [@ EXCEPT !.closed = FALSE, !.all_data = <<>>],
                      ![t].ret = Returned(TRUE, Msg("saved",
                                              SumLens(futures[t].conn.all_data), "None"))]
    /\ files' = files \cup {futures[t].code}
    /\ hist' = [hist EXCEPT !.writes[futures[t].code] = @ + 1]
    /\ UNCHANGED <<cfgVars, pc, TDX_SERVERS, retry_round, workers, batchVars, runVars,
                   workersLog, okCount, trace>>

\* lines 149 and 169-170 after the disconnect, all_data empty: the call
\* returns "no data" and has written nothing
ReturnNoData(t) ==
    /\ prog = "tick"
    /\ t \in 1..Len(futures)
    /\ futures[t].st = "running"
    /\ futures[t].conn.closed
    /\ futures[t].conn.all_data = <<>>
    /\ futures' = [futures EXCEPT
                      ![t].conn = [@ EXCEPT !.closed = FALSE],
                      ![t].st = "done",
                      ![t].seq = CompletionSeq,
                      ![t].res = Returned(FALSE, Msg("nodata", 0, "None"))]
    /\ UNCHANGED <<cfgVars, pc, TDX_SERVERS, files, retry_round, workers, batchVars,
                   runVars, hist, workersLog, okCount, trace>>

\* the returns outside the server loop: line 98 raises, line 103 (the
\* artifact exists), line 180 (every server of the slice was tried)
ReturnOutsideLoop(t) ==
    /\ prog = "tick"
    /\ t \in 1..Len(futures)
    /\ futures[t].st = "running"
    /\ futures[t].ret = NoResult
    /\ futures[t].conn.script = NoScript
    /\ ~futures[t].conn.closed
    /\ \/ ~hasStockName
       \/ futures[t].existed
       \/ futures[t].conn.tried = Len(ServerSlice(TDX_SERVERS))
    /\ futures' = [futures EXCEPT
                      ![t].st = "done",
                      ![t].seq = CompletionSeq,
                      ![t].res = IF ~hasStockName THEN Raised
                                 ELSE IF futures[t].existed
                                 THEN Returned(TRUE, Msg("exists", 0, "None"))
                                 ELSE Returned(FALSE, Msg("failed", 0,
                                                          futures[t].conn.last_error))]
    /\ UNCHANGED <<cfgVars, pc, TDX_SERVERS, files, retry_round, workers, batchVars,
                   runVars, hist, workersLog, okCount, trace>>

\* ======================================== downloader.py, download_all_stocks
\* the rows of df, as futures: executor.submit(self.fetch_single_stock, row, ...)
SubmitRows(rows) == [k \in 1..Len(rows) |-> Future(stocks_df[rows[k]], rows[k])]

AllRows == [i \in 1..Len(stocks_df) |-> i]

\* the rows i of stocks_df from position k on that satisfy keepRow[i], in order
RECURSIVE FilterRows(_, _)
FilterRows(k, codes) ==
    IF k > Len(stocks_df) THEN <<>>
    ELSE IF stocks_df[k] \in codes
         THEN <<k>> \o FilterRows(k + 1, codes)
         ELSE FilterRows(k + 1, codes)

\* retry_df = self.stocks_df[self.stocks_df['stock_code'].isin(failed_codes)]
RetryRows(fl) == FilterRows(1, {fl[i].code : i \in 1..Len(fl)})

\* "当日无数据" in message
HasNoDataText(msg) == msg.kind = "nodata"

\* line 234: len(failed_list) > len(self.stocks_df) * 0.9 and
\*           "当日无数据" in failed_list[0][1]
SkipRetry(fl) ==
    /\ 10 * Len(fl) > 9 * Len(stocks_df)
    /\ HasNoDataText(fl[1].msg)

\* the position of the thread that runs the submit loop of a batch (the
\* dict comprehension of lines 266-269, of lines 75-78 in
\* download_pre_close.py) when k of the total calls have been submitted
AfterSubmit(k, total) == IF k >= total THEN "submitted" ELSE "submitting"

\* the rows the current _download_batch iterates over (df.iterrows()):
\* stocks_df in the first download (line 213), retry_df in a retry (243)
BatchRows == IF retry_round = 0 THEN AllRows ELSE RetryRows(failed_list)

\* lines 197-216 and 256-265: probe, keep the servers that answered, enter
\* the first _download_batch and create its ThreadPoolExecutor; no row has
\* been submitted
DownloadAllStocks ==
    /\ prog = "tick"
    /\ pc = "start"
    /\ \E alive \in ProbeChoices :
         /\ TDX_SERVERS' = ServersAfterProbe(TDX_SERVERS, alive)
         /\ hist' = [hist EXCEPT !.probes = @ + 1,
                                  !.alive = alive,
                                  !.probed = Range(TDX_SERVERS)]
    /\ futures' = <<>>
    /\ workers' = max_workers
    /\ workersLog' = Append(workersLog, max_workers)
    /\ pc' = AfterSubmit(0, Len(AllRows))
    /\ UNCHANGED <<cfgVars, files, retry_round, batchVars, runVars, okCount, trace>>

\* lines 266-269, one iteration of the dict comprehension: the next row of
\* the batch is handed to the executor (executor.submit), which queues the
\* call; the worker threads run the calls submitted so far while the
\* later rows are not submitted
SubmitRow ==
    /\ prog = "tick"
    /\ pc = "submitting"
    /\ LET all == SubmitRows(BatchRows)
           k == Len(futures) + 1
       IN  /\ k <= Len(all)
           /\ futures' = Append(futures, all[k])
           /\ hist' = [hist EXCEPT !.submits[all[k].row] = @ + 1]
           /\ pc' = AfterSubmit(k, Len(all))
    /\ UNCHANGED <<cfgVars, TDX_SERVERS, files, retry_round, workers, batchVars,
                   runVars, workersLog, okCount, trace>>

\* the progress_callback argument of the current _download_batch: the
\* caller's callback in the first download (line 215), None in a retry (246)
BatchCallback == IF retry_round = 0 THEN progress_callback ELSE "None"

\* (variant: the call of the callback is not guarded)
InvokeCallback_Unguarded(cb) == [called |-> cb # "None", escapes |-> cb = "raises"]

\* lines 289-293: if progress_callback: try: progress_callback(...) except: pass
InvokeCallback(cb) == [called |-> cb # "None", escapes |-> FALSE]

\* completed_tasks after the increment of line 288
CompletedTasks ==
    Cardinality({u \in 1..Len(futures) : futures[u].st = "consumed"}) + 1

\* (variant: the increment made while a worker is running is lost)
CountSuccess_Lost(n) == IF Running # {} THEN n ELSE n + 1

\* line 280, in the consuming thread: success_count += 1
CountSuccess(n) == n + 1

\* _download_batch lines 276-282: the loop over as_completed(futures) takes
\* one finished future; future.result() re-raises what the worker raised
Consume(t) ==
    /\ prog = "tick"
    /\ pc = "batch"
    /\ NextCompleted(t)
    /\ futures' = [futures EXCEPT ![t].st = "consumed", ![t].seq = 0]
    /\ IF futures[t].res.raised
       THEN /\ pc' = "aborted"
            /\ UNCHANGED <<batch_success, batch_failed, okCount, hist>>
       ELSE /\ IF futures[t].res.ok
               THEN /\ batch_success' = CountSuccess(batch_success)
                    /\ okCount' = [okCount EXCEPT ![futures[t].row] = @ + 1]
                    /\ UNCHANGED batch_failed
               ELSE /\ batch_failed' =
                           Append(batch_failed,
                                  [code |-> futures[t].code, msg |-> futures[t].res.msg])
                    /\ UNCHANGED <<batch_success, okCount>>
            /\ LET cb == InvokeCallback(BatchCallback)
               IN  /\ hist' = [hist EXCEPT
                                  !.fails[futures[t].row] =
                                      IF futures[t].res.ok THEN @ ELSE @ + 1,
                                  !.last[futures[t].row] = futures[t].res,
                                  !.callbacks =
                                      IF cb.called
                                      THEN Append(@, <<CompletedTasks, Len(futures)>>)
                                      ELSE @]
                   /\ pc' = IF cb.escapes THEN "aborted" ELSE pc
    /\ UNCHANGED <<cfgVars, TDX_SERVERS, files, retry_round, workers, results,
                   failed_codes, runVars, workersLog, trace>>

\* (variant: one retry round more)
LoopTest_OneMore(fl, rr) == fl # <<>> /\ rr <= max_retry + 1

\* line 238: while failed_list and retry_round <= max_retry
LoopTest(fl, rr) == fl # <<>> /\ rr <= max_retry

\* lines 237-254 from the loop test on: with sc and fl the new success_count
\* and failed_list and rr the new retry_round, either the next retry
\* _download_batch is entered and its ThreadPoolExecutor created (lines
\* 242-246, 256-265; no row has been submitted) or the loop is left for
\* _generate_report
RetryLoop(sc, fl, rr) ==
    /\ success_count' = sc
    /\ failed_list' = fl
    /\ retry_round' = rr
    /\ batch_success' = 0
    /\ batch_failed' = <<>>
    /\ IF LoopTest(fl, rr)
       THEN /\ futures' = <<>>
            /\ workers' = max_workers
            /\ workersLog' = Append(workersLog, max_workers)
            /\ pc' = AfterSubmit(0, Len(RetryRows(fl)))
            /\ UNCHANGED hist
       ELSE /\ futures' = <<>>
            /\ pc' = "report"
            /\ UNCHANGED <<workers, workersLog, hist>>

\* lines 214-237: the first _download_batch returns
FirstBatchReturn ==
    /\ prog = "tick"
    /\ pc = "batch"
    /\ retry_round = 0
    /\ AllConsumed
    /\ IF batch_failed # <<>> /\ SkipRetry(batch_failed)
       THEN /\ success_count' = batch_success
            /\ failed_list' = batch_failed
            /\ batch_success' = 0
            /\ batch_failed' = <<>>
            /\ futures' = <<>>
            /\ pc' = "report"
            /\ UNCHANGED <<retry_round, workers, workersLog, hist>>
       ELSE RetryLoop(batch_success, batch_failed, 1)
    /\ UNCHANGED <<cfgVars, TDX_SERVERS, files, results, failed_codes, all_results,
                   failed, report, failed_csv, okCount, trace>>

\* (variant: the failures of a retry round are added to the list)
NextFailedList_Extend(old, retry_failed) == old \o retry_failed

\* line 250: failed_list = retry_failed
NextFailedList(old, retry_failed) == retry_failed

\* (variant: the successes of a retry round are not added)
NextSuccessCount_Dropped(old, retry_success) == old

\* line 249: success_count += retry_success
NextSuccessCount(old, retry_success) == old + retry_success

\* lines 245-251: the _download_batch of a retry round returns
RetryBatchReturn ==
    /\ prog = "tick"
    /\ pc = "batch"
    /\ retry_round >= 1
    /\ AllConsumed
    /\ RetryLoop(NextSuccessCount(success_count, batch_success),
                 NextFailedList(failed_list, batch_failed), retry_round + 1)
    /\ UNCHANGED <<cfgVars, TDX_SERVERS, files, results, failed_codes, all_results,
                   failed, report, failed_csv, okCount, trace>>

\* _generate_report lines 297-314: total = len(self.stocks_df); the
\* percentages divide by total, so an empty table raises ZeroDivisionError;
\* failed_stocks.csv is written (over the old one) only if failed_list
GenerateReport ==
    /\ prog = "tick"
    /\ pc = "report"
    /\ hist' = [hist EXCEPT !.reports = @ + 1]
    /\ IF Len(stocks_df) = 0
       THEN pc' = "crashed" /\ UNCHANGED <<report, failed_csv>>
       ELSE /\ pc' = "done"
            /\ report' = [built |-> TRUE, total |-> Len(stocks_df),
                          success |-> success_count, failed |-> Len(failed_list)]
            /\ failed_csv' = IF failed_list # <<>> THEN Csv(failed_list) ELSE failed_csv
    /\ UNCHANGED <<cfgVars, TDX_SERVERS, files, retry_round, workers, futures, batchVars,
                   success_count, failed_list, all_results, failed, workersLog,
                   okCount, trace>>

\* download_date_range lines 331-342: download_all_stocks has returned and a
\* weekday date is left, so it is called again on the same object, with
\* fresh locals and the output directory data/tick_<date> of that date,
\* which holds what earlier runs for that date left in it: any artifacts,
\* and a failed_stocks.csv or none
DownloadDateRange ==
    /\ prog = "tick"
    /\ pc = "done"
    /\ dates_left > 0
    /\ dates_left' = dates_left - 1
    /\ pc' = "start"
    /\ \E onDisk \in SUBSET Range(stocks_df) : files' = onDisk
    /\ \E csv \in CsvChoices : failed_csv' = csv
    /\ retry_round' = 0
    /\ success_count' = 0
    /\ failed_list' = <<>>
    /\ report' = NoReport
    /\ hist' = NoHist(Len(stocks_df))
    /\ workersLog' = <<>>
    /\ okCount' = [i \in 1..Len(stocks_df) |-> 0]
    /\ UNCHANGED <<prog, stocks_df, hasStockName, stock_codes, max_workers, max_retry,
                   progress_callback, TDX_SERVERS, workers, futures, batchVars,
                   all_results, failed, trace>>

\* ======================================================= download_pre_close
\* get_stock_pre_close_single lines 24-31: the secid of a code, as the
\* namespace digit followed by the code
StartsWith(code, d) == Len(code) > 0 /\ code[1] = d

\* (variant: the Beijing codes get a namespace of their own)
SecId_BeijingNamespace(code) ==
    IF StartsWith(code, 6) THEN <<1>> \o code
    ELSE IF StartsWith(code, 0) \/ StartsWith(code, 3) THEN <<0>> \o code
    ELSE IF StartsWith(code, 8) \/ StartsWith(code, 4) THEN <<2>> \o code
    ELSE <<0>> \o code

SecId(code) ==
    IF StartsWith(code, 6) THEN <<1>> \o code
    ELSE IF StartsWith(code, 0) \/ StartsWith(code, 3) THEN <<0>> \o code
    ELSE IF StartsWith(code, 8) \/ StartsWith(code, 4) THEN <<0>> \o code
    ELSE <<0>> \o code

\* What requests.get does for one call: it raises, or it returns a response
\* with a status code and a JSON body; hasData says data['data'] is truthy,
\* f60 is the value under 'f60': absent, the placeholder '-', or a number
F60Absent == [present |-> FALSE, dash |-> FALSE, val |-> 0]
F60Dash == [present |-> TRUE, dash |-> TRUE, val |-> 0]
F60Num(v) == [present |-> TRUE, dash |-> FALSE, val |-> v]
HttpRaise == [raise |-> TRUE, status |-> 0, hasData |-> FALSE, f60 |-> F60Absent]
HttpResp(status, hasData, f60) ==
    [raise |-> FALSE, status |-> status, hasData |-> hasData, f60 |-> f60]

HttpResponses ==
    {HttpRaise, HttpResp(500, TRUE, F60Num(1050)), HttpResp(200, FALSE, F60Absent),
     HttpResp(200, TRUE, F60Absent), HttpResp(200, TRUE, F60Dash),
     HttpResp(200, TRUE, F60Num(0)), HttpResp(200, TRUE, F60Num(1050))}

\* Python truth of data['data'].get('f60')
Truthy(f60) == f60.present /\ (f60.dash \/ f60.val # 0)

\* (variant: the placeholder is not filtered out)
GetStockPreCloseSingle_KeepsDash(code, resp) ==
    IF resp.raise THEN Returned(FALSE, Msg("None", 0, "None"))
    ELSE IF resp.status # 200 THEN Returned(FALSE, Msg("None", 0, "None"))
    ELSE IF resp.hasData /\ Truthy(resp.f60)
    THEN Returned(TRUE, Msg("record", resp.f60.val, "None"))
    ELSE Returned(FALSE, Msg("None", 0, "None"))

\* get_stock_pre_close_single lines 43-66: the record, or None
GetStockPreCloseSingle(code, resp) ==
    IF resp.raise THEN Returned(FALSE, Msg("None", 0, "None"))
    ELSE IF resp.status # 200 THEN Returned(FALSE, Msg("None", 0, "None"))
    ELSE IF resp.hasData /\ Truthy(resp.f60)
    THEN IF resp.f60.dash
         THEN Returned(FALSE, Msg("None", 0, "None"))
         ELSE Returned(TRUE, Msg("record", resp.f60.val, "None"))
    ELSE Returned(FALSE, Msg("None", 0, "None"))

\* (variant: the last code of the list is not submitted)
SubmitCodes_DropsLast(codes) == [k \in 1..(Len(codes) - 1) |-> Future(codes[k], k)]

\* executor.submit(get_stock_pre_close_single, code) for code in stock_codes
SubmitCodes(codes) == [k \in 1..Len(codes) |-> Future(codes[k], k)]

\* line 124: max(5, int(max_workers * 0.5))
RetryWorkers(mw) == Max(FloorWorkers, mw \div 2)

\* the codes the current _download_batch_internal is called with:
\* stock_codes in the first download (line 114), failed in a retry (127)
BatchCodes == IF retry_round = 0 THEN stock_codes ELSE failed

\* lines 108-114 and 69-74: the first _download_batch_internal is entered
\* and its ThreadPoolExecutor created; no code has been submitted
DownloadPreCloseParallel ==
    /\ prog = "pre"
    /\ pc = "start"
    /\ futures' = <<>>
    /\ workers' = max_workers
    /\ workersLog' = Append(workersLog, max_workers)
    /\ pc' = AfterSubmit(0, Len(SubmitCodes(stock_codes)))
    /\ UNCHANGED <<cfgVars, TDX_SERVERS, files, retry_round, batchVars, runVars,
                   hist, okCount, trace>>

\* lines 75-78, one iteration of the dict comprehension: the next code is
\* handed to the executor; the worker threads run the calls submitted so
\* far while the later codes are not submitted
SubmitCode ==
    /\ prog = "pre"
    /\ pc = "submitting"
    /\ LET all == SubmitCodes(BatchCodes)
           k == Len(futures) + 1
       IN  /\ k <= Len(all)
           /\ futures' = Append(futures, all[k])
           /\ pc' = AfterSubmit(k, Len(all))
    /\ UNCHANGED <<cfgVars, TDX_SERVERS, files, retry_round, workers, batchVars,
                   runVars, hist, workersLog, okCount, trace>>

\* a worker thread that holds call t enters get_stock_pre_close_single and
\* sends its request (line 44, the only requests.get of the function)
PreStart(t) ==
    /\ prog = "pre"
    /\ CanStart(t)
    /\ futures' = [futures EXCEPT ![t].st = "running"]
    /\ hist' = [hist EXCEPT !.requests[futures[t].code] = @ + 1]
    /\ UNCHANGED <<cfgVars, pc, TDX_SERVERS, files, retry_round, workers, batchVars,
                   runVars, workersLog, okCount, trace>>

\* the record trace keeps of a call of get_stock_pre_close_single: the
\* secid its request was sent with (servers), the response, the result
LookupRecord(code, resp, res) ==
    [called |-> TRUE, onDisk |-> FALSE, servers |-> <<SecId(code)>>,
     scripts |-> <<resp>>, tries |-> <<>>, res |-> res, wrote |-> FALSE]

\* the request of a worker ends and get_stock_pre_close_single returns;
\* keep says whether trace records the call
PreFinish(t, keep) ==
    /\ prog = "pre"
    /\ t \in 1..Len(futures)
    /\ futures[t].st = "running"
    /\ \E resp \in HttpResponses :
         LET res == GetStockPreCloseSingle(futures[t].code, resp)
         IN  /\ futures' = [futures EXCEPT ![t].st = "done", ![t].res = res,
                                           ![t].seq = CompletionSeq]
             /\ trace' = IF keep THEN LookupRecord(futures[t].code, resp, res) ELSE trace
    /\ UNCHANGED <<cfgVars, pc, TDX_SERVERS, files, retry_round, workers, batchVars,
                   runVars, hist, workersLog, okCount>>

\* _download_batch_internal lines 82-92: one finished future is taken; a
\* raised exception and a None result both put the code in failed_codes
PreConsume(t) ==
    /\ prog = "pre"
    /\ pc = "batch"
    /\ NextCompleted(t)
    /\ futures' = [futures EXCEPT ![t].st = "consumed", ![t].seq = 0]
    /\ IF futures[t].res.raised
       THEN failed_codes' = Append(failed_codes, futures[t].code) /\ UNCHANGED results
       ELSE IF futures[t].res.ok
       THEN /\ results' = Append(results, [stock_code |-> futures[t].code,
                                            pre_close |-> futures[t].res.msg.n])
            /\ UNCHANGED failed_codes
       ELSE failed_codes' = Append(failed_codes, futures[t].code) /\ UNCHANGED results
    /\ UNCHANGED <<cfgVars, pc, TDX_SERVERS, files, retry_round, workers, batch_success,
                   batch_failed, runVars, hist, workersLog, okCount, trace>>

\* lines 114-129: a _download_batch_internal returns; its results are
\* appended, its failed codes become failed, and the for loop either goes
\* on to the sleep before the next retry or is left
PreBatchReturn ==
    /\ prog = "pre"
    /\ pc = "batch"
    /\ AllConsumed
    /\ all_results' = all_results \o results
    /\ failed' = failed_codes
    /\ results' = <<>>
    /\ failed_codes' = <<>>
    /\ futures' = <<>>
    /\ pc' = IF retry_round < max_retry /\ failed_codes # <<>> THEN "sleep" ELSE "finish"
    /\ UNCHANGED <<cfgVars, TDX_SERVERS, files, retry_round, workers, batch_success,
                   batch_failed, success_count, failed_list, report, failed_csv, hist,
                   workersLog, okCount, trace>>

\* lines 124-127 and 69-74: time.sleep(1) is over, the retry
\* _download_batch_internal is entered and its ThreadPoolExecutor created
PreRetry ==
    /\ prog = "pre"
    /\ pc = "sleep"
    /\ futures' = <<>>
    /\ workers' = RetryWorkers(max_workers)
    /\ workersLog' = Append(workersLog, RetryWorkers(max_workers))
    /\ retry_round' = retry_round + 1
    /\ pc' = AfterSubmit(0, Len(SubmitCodes(failed)))
    /\ hist' = [hist EXCEPT !.pauses = @ + 1]
    /\ UNCHANGED <<cfgVars, TDX_SERVERS, files, batchVars, runVars, okCount, trace>>

\* lines 131-137: the final counts are printed and the frame is returned
PreReturn ==
    /\ prog = "pre"
    /\ pc = "finish"
    /\ report' = [built |-> TRUE, total |-> Len(stock_codes),
                  success |-> Len(all_results), failed |-> Len(failed)]
    /\ pc' = "done"
    /\ UNCHANGED <<cfgVars, TDX_SERVERS, files, retry_round, workers, futures, batchVars,
                   success_count, failed_list, all_results, failed, failed_csv, hist,
                   workersLog, okCount, trace>>

\* ============================================================ SpecFetch
\* self.TDX_SERVERS as a run can leave it
ServerLists == {ServersAfterProbe(ConfiguredServers, alive) :
                  alive \in SUBSET Range(ConfiguredServers)}

InitFetch ==
    /\ prog = "fetch"
    /\ pc = "call"
    /\ \E c \in Codes : stocks_df = <<c>> /\ futures = <<Future(c, 1)>>
    /\ hasStockName = TRUE
    /\ stock_codes = <<>>
    /\ max_workers = 1
    /\ max_retry = 0
    /\ progress_callback = "None"
    /\ dates_left = 0
    /\ TDX_SERVERS \in ServerLists
    /\ files \in SUBSET Codes
    /\ retry_round = 0
    /\ workers = 1
    /\ batch_success = 0 /\ batch_failed = <<>>
    /\ success_count = 0 /\ failed_list = <<>>
    /\ results = <<>> /\ failed_codes = <<>> /\ all_results = <<>> /\ failed = <<>>
    /\ report = NoReport
    /\ failed_csv = NoCsv
    /\ hist = NoHist(1)
    /\ workersLog = <<>>
    /\ okCount = [i \in 1..1 |-> 0]
    /\ trace = NoTrace

NextFetch ==
    \/ FetchStart(1)
    \/ FetchFinish(1, FetchScripts, TRUE)
    \/ FetchReturn(1)

SpecFetch == InitFetch /\ [][NextFetch]_vars

\* ================================================================= Spec
\* the progress_callback a run is started with
NoCallback == {"None"}
AllCallbacks == {"None", "returns", "raises"}
CallbackChoices == {"None", "raises"}

InitTick ==
    /\ prog = "tick"
    /\ pc = "start"
    /\ stocks_df \in SeqsUpTo(Codes, MaxRows)
    /\ hasStockName \in BOOLEAN
    /\ stock_codes = <<>>
    /\ max_workers \in WorkerChoices
    /\ max_retry \in 0..MaxRetry
    /\ progress_callback \in CallbackChoices
    /\ dates_left = 0
    /\ TDX_SERVERS = ConfiguredServers
    /\ files \in SUBSET Range(stocks_df)
    /\ retry_round = 0
    /\ workers = 0
    /\ futures = <<>>
    /\ batch_success = 0 /\ batch_failed = <<>>
    /\ success_count = 0 /\ failed_list = <<>>
    /\ results = <<>> /\ failed_codes = <<>> /\ all_results = <<>> /\ failed = <<>>
    /\ report = NoReport
    /\ failed_csv \in CsvChoices
    /\ hist = NoHist(Len(stocks_df))
    /\ workersLog = <<>>
    /\ okCount = [i \in 1..Len(stocks_df) |-> 0]
    /\ trace = NoTrace

\* max_workers values download_pre_close_parallel is started with
PreWorkerChoices == WorkerChoices \cup {12}

InitPre ==
    /\ prog = "pre"
    /\ pc = "start"
    /\ stocks_df = <<>>
    /\ hasStockName = TRUE
    /\ stock_codes \in SeqsUpTo(Codes, MaxRows)
    /\ max_workers \in PreWorkerChoices
    /\ max_retry \in 0..MaxRetry
    /\ progress_callback = "None"
    /\ dates_left = 0
    /\ TDX_SERVERS = ConfiguredServers
    /\ files = {}
    /\ retry_round = 0
    /\ workers = 0
    /\ futures = <<>>
    /\ batch_success = 0 /\ batch_failed = <<>>
    /\ success_count = 0 /\ failed_list = <<>>
    /\ results = <<>> /\ failed_codes = <<>> /\ all_results = <<>> /\ failed = <<>>
    /\ report = NoReport
    /\ failed_csv = NoCsv
    /\ hist = NoHist(0)
    /\ workersLog = <<>>
    /\ okCount = <<>>
    /\ trace = NoTrace

Init == InitTick \/ InitPre

Next ==
    \/ DownloadAllStocks
    \/ SubmitRow
    \/ AsCompleted
    \/ \E t \in 1..Len(futures) : FetchStart(t)
    \/ \E t \in 1..Len(futures) : FetchFinish(t, RunScripts, FALSE)
    \/ \E t \in 1..Len(futures) : FetchReturn(t)
    \/ \E t \in 1..Len(futures) : Consume(t)
    \/ FirstBatchReturn
    \/ RetryBatchReturn
    \/ GenerateReport
    \/ DownloadPreCloseParallel
    \/ SubmitCode
    \/ \E t \in 1..Len(futures) : PreStart(t)
    \/ \E t \in 1..Len(futures) : PreFinish(t, FALSE)
    \/ \E t \in 1..Len(futures) : PreConsume(t)
    \/ PreBatchReturn
    \/ PreRetry
    \/ PreReturn

Spec == Init /\ [][Next]_vars

\* the same runs under the scheduling the thread pools and the consuming
\* loops give: a step that stays possible is eventually taken
FairSpec == Spec /\ WF_vars(Next)

\* ============================================================ SpecBatch
\* One batch of either program, from the moment its ThreadPoolExecutor is
\* created (_download_batch line 265, _download_batch_internal line 74), no
\* call submitted yet, to the moment the last future is consumed: any
\* table, any artifacts already on
\* disk, any pool size; in download_all_stocks the probe of lines 197-203 has
\* been made, with any of its results.
\* pool sizes of the batches of download_pre_close_parallel: max_workers in
\* the first download, retry_workers in a retry
PreBatchWorkers == WorkerChoices \cup {RetryWorkers(w) : w \in WorkerChoices}

InitBatch ==
    /\ prog \in {"tick", "pre"}
    /\ hasStockName = TRUE
    /\ max_workers \in (IF prog = "tick" THEN WorkerChoices ELSE PreBatchWorkers)
    /\ max_retry = 0
    /\ progress_callback \in (IF prog = "tick" THEN AllCallbacks ELSE NoCallback)
    /\ dates_left = 0
    /\ \E codes \in SeqsUpTo(Codes, MaxRows) :
         /\ pc = AfterSubmit(0, Len(codes))
         /\ futures = <<>>
         /\ IF prog = "tick"
            THEN /\ stocks_df = codes
                 /\ stock_codes = <<>>
                 /\ okCount = [i \in 1..Len(codes) |-> 0]
                 /\ files \in SUBSET Range(codes)
                 /\ \E alive \in ProbeChoices :
                      /\ TDX_SERVERS = ServersAfterProbe(ConfiguredServers, alive)
                      /\ hist = [NoHist(Len(codes)) EXCEPT
                                    !.probes = 1,
                                    !.alive = alive,
                                    !.probed = Range(ConfiguredServers)]
            ELSE /\ stocks_df = <<>>
                 /\ stock_codes = codes
                 /\ okCount = <<>>
                 /\ hist = NoHist(0)
                 /\ files = {}
                 /\ TDX_SERVERS = ConfiguredServers
    /\ retry_round = 0
    /\ workers = max_workers
    /\ batch_success = 0 /\ batch_failed = <<>>
    /\ success_count = 0 /\ failed_list = <<>>
    /\ results = <<>> /\ failed_codes = <<>> /\ all_results = <<>> /\ failed = <<>>
    /\ report = NoReport
    /\ failed_csv = NoCsv
    /\ workersLog = <<max_workers>>
    /\ trace = NoTrace

NextBatch ==
    \/ SubmitRow
    \/ SubmitCode
    \/ AsCompleted
    \/ \E t \in 1..Len(futures) : FetchStart(t)
    \/ \E t \in 1..Len(futures) : FetchFinish(t, BatchScripts, FALSE)
    \/ \E t \in 1..Len(futures) : FetchReturn(t)
    \/ \E t \in 1..Len(futures) : Consume(t)
    \/ \E t \in 1..Len(futures) : PreStart(t)
    \/ \E t \in 1..Len(futures) : PreFinish(t, FALSE)
    \/ \E t \in 1..Len(futures) : PreConsume(t)

SpecBatch == InitBatch /\ [][NextBatch]_vars

\* ============================================================= SpecConn
\* The calls of one batch of download_all_stocks on the worker threads, each
\* followed server-try by server-try up to its return, so that the
\* connections open at an instant are in the state.
InitConn ==
    /\ InitBatch
    /\ prog = "tick"
    /\ progress_callback = "None"

NextConn ==
    \/ SubmitRow
    \/ \E t \in 1..Len(futures) : FetchStart(t)
    \/ \E t \in 1..Len(futures) : ConnectServer(t, BatchScripts)
    \/ \E t \in 1..Len(futures) : PageAndClose(t)
    \/ \E t \in 1..Len(futures) : SaveArtifact(t)
    \/ \E t \in 1..Len(futures) : ReturnNoData(t)
    \/ \E t \in 1..Len(futures) : FetchReturn(t)
    \/ \E t \in 1..Len(futures) : ReturnOutsideLoop(t)

SpecConn == InitConn /\ [][NextConn]_vars

\* ============================================================= SpecDeep
\* Runs of download_all_stocks with up to DeepRetry retry rounds, on a
\* well-formed table of at most DeepRows rows and one worker thread.
InitDeep ==
    /\ prog = "tick"
    /\ pc = "start"
    /\ stocks_df \in SeqsUpTo(Codes, DeepRows)
    /\ hasStockName = TRUE
    /\ stock_codes = <<>>
    /\ max_workers = 1
    /\ max_retry \in 0..DeepRetry
    /\ progress_callback = "None"
    /\ dates_left = 0
    /\ TDX_SERVERS = ConfiguredServers
    /\ files \in SUBSET Range(stocks_df)
    /\ retry_round = 0
    /\ workers = 0
    /\ futures = <<>>
    /\ batch_success = 0 /\ batch_failed = <<>>
    /\ success_count = 0 /\ failed_list = <<>>
    /\ results = <<>> /\ failed_codes = <<>> /\ all_results = <<>> /\ failed = <<>>
    /\ report = NoReport
    /\ failed_csv = NoCsv
    /\ hist = NoHist(Len(stocks_df))
    /\ workersLog = <<>>
    /\ okCount = [i \in 1..Len(stocks_df) |-> 0]
    /\ trace = NoTrace

NextDeep ==
    \/ DownloadAllStocks
    \/ SubmitRow
    \/ AsCompleted
    \/ \E t \in 1..Len(futures) : FetchStart(t)
    \/ \E t \in 1..Len(futures) : FetchFinish(t, BatchScripts, FALSE)
    \/ \E t \in 1..Len(futures) : FetchReturn(t)
    \/ \E t \in 1..Len(futures) : Consume(t)
    \/ FirstBatchReturn
    \/ RetryBatchReturn
    \/ GenerateReport

SpecDeep == InitDeep /\ [][NextDeep]_vars

\* ============================================================ SpecRange
\* Runs of download_date_range over at most MaxDates weekday dates: one
\* download_all_stocks per date on the same downloader object.
InitRange ==
    /\ prog = "tick"
    /\ pc = "start"
    /\ stocks_df \in SeqsUpTo(Codes, DeepRows)
    /\ hasStockName = TRUE
    /\ stock_codes = <<>>
    /\ max_workers = 1
    /\ max_retry \in 0..MaxRetry
    /\ progress_callback = "None"
    /\ dates_left \in 0..(MaxDates - 1)
    /\ TDX_SERVERS = ConfiguredServers
    /\ files \in SUBSET Range(stocks_df)
    /\ retry_round = 0
    /\ workers = 0
    /\ futures = <<>>
    /\ batch_success = 0 /\ batch_failed = <<>>
    /\ success_count = 0 /\ failed_list = <<>>
    /\ results = <<>> /\ failed_codes = <<>> /\ all_results = <<>> /\ failed = <<>>
    /\ report = NoReport
    /\ failed_csv \in CsvChoices
    /\ hist = NoHist(Len(stocks_df))
    /\ workersLog = <<>>
    /\ okCount = [i \in 1..Len(stocks_df) |-> 0]
    /\ trace = NoTrace

NextRange ==
    \/ NextDeep
    \/ DownloadDateRange

SpecRange == InitRange /\ [][NextRange]_vars

\* ============================================================= SpecPair
\* Runs of download_all_stocks on the table of the two codes, on pools of
\* one and two workers, with any of the two artifacts already on disk.
PairTable == << <<6, 0>>, <<0, 1>> >>

InitPair ==
    /\ InitTick
    /\ stocks_df = PairTable
    /\ hasStockName = TRUE
    /\ progress_callback = "None"
    /\ failed_csv = NoCsv

SpecPair == InitPair /\ [][NextDeep]_vars

\* ========================================================= SpecPairDeep
\* Runs of download_all_stocks with up to DeepRetry retry rounds on the
\* table of the two codes, on pools of one and two workers, with any of the
\* two artifacts already on disk.
InitPairDeep ==
    /\ prog = "tick"
    /\ pc = "start"
    /\ stocks_df = PairTable
    /\ hasStockName = TRUE
    /\ stock_codes = <<>>
    /\ max_workers \in WorkerChoices
    /\ max_retry \in 0..DeepRetry
    /\ progress_callback = "None"
    /\ dates_left = 0
    /\ TDX_SERVERS = ConfiguredServers
    /\ files \in SUBSET Range(stocks_df)
    /\ retry_round = 0
    /\ workers = 0
    /\ futures = <<>>
    /\ batch_success = 0 /\ batch_failed = <<>>
    /\ success_count = 0 /\ failed_list = <<>>
    /\ results = <<>> /\ failed_codes = <<>> /\ all_results = <<>> /\ failed = <<>>
    /\ report = NoReport
    /\ failed_csv = NoCsv
    /\ hist = NoHist(Len(stocks_df))
    /\ workersLog = <<>>
    /\ okCount = [i \in 1..Len(stocks_df) |-> 0]
    /\ trace = NoTrace

SpecPairDeep == InitPairDeep /\ [][NextDeep]_vars

\* Runs of download_pre_close_parallel on at most LookupRows codes, with the
\* latest call of get_stock_pre_close_single recorded in trace.
InitLookup ==
    /\ prog = "pre"
    /\ pc = "start"
    /\ stocks_df = <<>>
    /\ hasStockName = TRUE
    /\ stock_codes \in SeqsUpTo(Codes, LookupRows)
    /\ max_workers \in PreWorkerChoices
    /\ max_retry \in 0..MaxRetry
    /\ progress_callback = "None"
    /\ dates_left = 0
    /\ TDX_SERVERS = ConfiguredServers
    /\ files = {}
    /\ retry_round = 0
    /\ workers = 0
    /\ futures = <<>>
    /\ batch_success = 0 /\ batch_failed = <<>>
    /\ success_count = 0 /\ failed_list = <<>>
    /\ results = <<>> /\ failed_codes = <<>> /\ all_results = <<>> /\ failed = <<>>
    /\ report = NoReport
    /\ failed_csv = NoCsv
    /\ hist = NoHist(0)
    /\ workersLog = <<>>
    /\ okCount = <<>>
    /\ trace = NoTrace

NextLookup ==
    \/ DownloadPreCloseParallel
    \/ SubmitCode
    \/ AsCompleted
    \/ \E t \in 1..Len(futures) : PreStart(t)
    \/ \E t \in 1..Len(futures) : PreFinish(t, TRUE)
    \/ \E t \in 1..Len(futures) : PreConsume(t)
    \/ PreBatchReturn
    \/ PreRetry
    \/ PreReturn

SpecLookup == InitLookup /\ [][NextLookup]_vars

\* ============================================================= SpecAddr
\* Calls of get_stock_pre_close_single, one per run, on every code of at
\* most AddrLen characters (the digits; the empty code included), with
\* every response: the inputs of the address it builds.
AddrChars == 0..9
AddrCodes == SeqsUpTo(AddrChars, AddrLen)
AddrLists == {<<c>> : c \in AddrCodes}

InitAddr ==
    /\ prog = "pre"
    /\ pc = "submitted"
    /\ stocks_df = <<>>
    /\ hasStockName = TRUE
    /\ stock_codes \in AddrLists
    /\ max_workers = 1
    /\ max_retry = 0
    /\ progress_callback = "None"
    /\ dates_left = 0
    /\ TDX_SERVERS = ConfiguredServers
    /\ files = {}
    /\ retry_round = 0
    /\ workers = 1
    /\ futures = SubmitCodes(stock_codes)
    /\ batch_success = 0 /\ batch_failed = <<>>
    /\ success_count = 0 /\ failed_list = <<>>
    /\ results = <<>> /\ failed_codes = <<>> /\ all_results = <<>> /\ failed = <<>>
    /\ report = NoReport
    /\ failed_csv = NoCsv
    /\ hist = [NoHist(0) EXCEPT !.requests = [c \in Range(stock_codes) |-> 0]]
    /\ workersLog = <<1>>
    /\ okCount = <<>>
    /\ trace = NoTrace

NextAddr ==
    \/ \E t \in 1..Len(futures) : PreStart(t)
    \/ \E t \in 1..Len(futures) : PreFinish(t, TRUE)

SpecAddr == InitAddr /\ [][NextAddr]_vars

\* =========================================================== SpecNoData
\* Runs of download_all_stocks for a date of which no server holds data
\* (every server answers the first request with an empty page), on a table
\* of up to UniverseRows rows and one worker thread.  The table has two
\* codes, the first row one and every later row the other, so that the
\* order in which the failures of a round are consumed gives few lists.
\* No call saves on such a date, so no call reaches the return of line 168.
NoDataScripts == {[connect |-> "ok", pages |-> <<Page(0)>>]}

UniverseTables ==
    {[i \in 1..n |-> IF i = 1 THEN <<6, 0>> ELSE <<0, 1>>] : n \in 0..UniverseRows}

InitNoData ==
    /\ prog = "tick"
    /\ pc = "start"
    /\ stocks_df \in UniverseTables
    /\ hasStockName = TRUE
    /\ stock_codes = <<>>
    /\ max_workers = 1
    /\ max_retry \in 0..MaxRetry
    /\ progress_callback = "None"
    /\ dates_left = 0
    /\ TDX_SERVERS = ConfiguredServers
    /\ files \in SUBSET Range(stocks_df)
    /\ retry_round = 0
    /\ workers = 0
    /\ futures = <<>>
    /\ batch_success = 0 /\ batch_failed = <<>>
    /\ success_count = 0 /\ failed_list = <<>>
    /\ results = <<>> /\ failed_codes = <<>> /\ all_results = <<>> /\ failed = <<>>
    /\ report = NoReport
    /\ failed_csv = NoCsv
    /\ hist = NoHist(Len(stocks_df))
    /\ workersLog = <<>>
    /\ okCount = [i \in 1..Len(stocks_df) |-> 0]
    /\ trace = NoTrace

NextNoData ==
    \/ DownloadAllStocks
    \/ SubmitRow
    \/ AsCompleted
    \/ \E t \in 1..Len(futures) : FetchStart(t)
    \/ \E t \in 1..Len(futures) : FetchFinish(t, NoDataScripts, FALSE)
    \/ \E t \in 1..Len(futures) : Consume(t)
    \/ FirstBatchReturn
    \/ RetryBatchReturn
    \/ GenerateReport

SpecNoData == InitNoData /\ [][NextNoData]_vars

\* ================================================================ claims
\* a batch is under way: its pool is created, its loop has not ended
InBatch == pc = "submitting" \/ pc = "submitted" \/ pc = "batch"

\* ---- helpers over the recorded call (SpecFetch)
Tries == trace.tries
NumTries == Len(trace.tries)

\* the loop of try tr received the sentinel None at one of its requests
SawSentinel(tr) ==
    \E k \in 1..Len(tr.r.offsets) :
        GetHistoryTransactionData(tr.script.pages, tr.r.offsets[k]).t = "none"

\* pages L1..Ln with Li = B for i < n and Ln < B
WellFormedPages(pages) ==
    /\ Len(pages) >= 1
    /\ \A k \in 1..(Len(pages) - 1) : pages[k] = Page(batch_size)
    /\ pages[Len(pages)].t = "page"
    /\ pages[Len(pages)].len < batch_size

\* what the server of a script does to a try, read off the script alone
ScriptFails(script) ==
    \/ script.connect # "ok"
    \/ \E k \in 1..Len(script.pages) :
          script.pages[k].t = "none" \/ script.pages[k].t = "raise"

ScriptDelivers(script) ==
    /\ script.connect = "ok"
    /\ WellFormedPages(script.pages)
    /\ SumLens(script.pages) > 0

FailureReason(script) ==
    IF script.connect = "refused" THEN "refused"
    ELSE IF script.connect = "raise" THEN "exception"
    ELSE IF \E k \in 1..Len(script.pages) : script.pages[k].t = "none" THEN "sentinel"
    ELSE "exception"

\* C1: whenever download_all_stocks has built its report, success_count +
\* len(failed_list) equals the number of rows of the universe table.
\* (Fails: rows that share a stock_code are re-selected together by isin.)
ReportCountsAddUp ==
    (prog = "tick" /\ report.built) => report.success + report.failed = report.total

\* C2: a call of fetch_single_stock that starts while the artifact of its
\* code is on disk makes no server-try (no connect, no page request),
\* returns success and writes nothing.
ExistingArtifactShortCircuits ==
    (prog = "fetch" /\ trace.called /\ trace.onDisk) =>
        /\ Tries = <<>>
        /\ ~trace.res.raised
        /\ trace.res.ok
        /\ ~trace.wrote

ExistingArtifactWitness ==
    /\ prog = "fetch"
    /\ trace.called
    /\ trace.onDisk
    /\ trace.res.ok
    /\ futures[1].st = "done"

\* C3: a server-try whose loop received the sentinel None, at offset 0 or
\* after full pages, ends neither saved nor nodata and writes no artifact;
\* when every try of the call received the sentinel the outcome is Failed.
SentinelNeverEndsData ==
    (prog = "fetch" /\ trace.called) =>
        /\ \A i \in 1..NumTries :
             SawSentinel(Tries[i]) =>
                /\ Tries[i].r.kind # "saved"
                /\ Tries[i].r.kind # "nodata"
                /\ ~Tries[i].r.wrote
                /\ (i = NumTries =>
                      /\ ~trace.wrote
                      /\ trace.res.msg.kind # "saved"
                      /\ trace.res.msg.kind # "nodata")
        /\ (NumTries >= 1 /\ \A i \in 1..NumTries : SawSentinel(Tries[i])) =>
                /\ ~trace.res.ok
                /\ trace.res.msg.kind = "failed"
                /\ ~trace.wrote

SentinelAfterFullPagesWitness ==
    /\ prog = "fetch"
    /\ trace.called
    /\ NumTries = 3
    /\ \A i \in 1..NumTries : SawSentinel(Tries[i])
    /\ Len(Tries[1].r.offsets) = 3
    /\ trace.res.msg.kind = "failed"

\* C4: a server-try served the page lengths L1..Ln (Li = B for i < n,
\* Ln < B, Ln possibly 0) issues exactly n page requests and accumulates
\* the sum of the Li records; the call then returns Success when the sum is
\* nonzero and NoData when it is zero.
PagesAccumulate ==
    (prog = "fetch" /\ trace.called) =>
        \A i \in 1..NumTries :
            (Tries[i].script.connect = "ok" /\ WellFormedPages(Tries[i].script.pages)) =>
                LET n == Len(Tries[i].script.pages)
                    sum == SumLens(Tries[i].script.pages)
                IN  /\ Len(Tries[i].r.offsets) = n
                    /\ SumLens(Tries[i].r.all_data) = sum
                    /\ i = NumTries
                    /\ (sum # 0 => /\ Tries[i].r.kind = "saved"
                                   /\ trace.res.ok
                                   /\ trace.res.msg = Msg("saved", sum, "None"))
                    /\ (sum = 0 => /\ Tries[i].r.kind = "nodata"
                                   /\ ~trace.res.ok
                                   /\ trace.res.msg.kind = "nodata")

ThreePagesWitness ==
    /\ prog = "fetch"
    /\ trace.called
    /\ NumTries = 1
    /\ Tries[1].script.pages = <<Page(batch_size), Page(batch_size), Page(batch_size - 1)>>
    /\ trace.res.ok
    /\ trace.res.msg.n = 3 * batch_size - 1
    /\ Len(Tries[1].r.offsets) = 3

\* C5: at every instant at most `workers` fetch attempts are executing on
\* the pool of the current batch, however many futures were submitted.
AtMostNConcurrent == Cardinality(Running) <= workers

PoolSaturatedWitness ==
    /\ workers >= 1
    /\ Cardinality(Running) = workers
    /\ \E t \in 1..Len(futures) : futures[t].st = "queued"

\* C6: an exception that escapes a worker is recorded as the failure of its
\* target and does not abort the batch or the run.
\* (Fails in _download_batch: future.result() is not guarded.)
WorkerFailureIsolated ==
    \A t \in 1..Len(futures) :
        (futures[t].st = "consumed" /\ futures[t].res.raised) =>
            /\ pc # "aborted"
            /\ \/ \E i \in 1..Len(batch_failed) : batch_failed[i].code = futures[t].code
               \/ \E i \in 1..Len(failed_codes) : failed_codes[i] = futures[t].code

\* C7: a call without an artifact tries the servers of the pool in order,
\* a server only after all servers before it failed, at most retry_count of
\* them; it returns Success at the first server that delivers data, and
\* Failed only after every server of the slice failed, with the reason of
\* the last try.
FailoverInPoolOrder ==
    (prog = "fetch" /\ trace.called /\ ~trace.onDisk) =>
        /\ NumTries >= 1
        /\ NumTries <= retry_count
        /\ NumTries <= Len(trace.servers)
        /\ \A i \in 1..NumTries : Tries[i].server = trace.servers[i]
        /\ \A i \in 1..(NumTries - 1) : ScriptFails(Tries[i].script)
        /\ \A i \in 1..NumTries :
             ScriptDelivers(Tries[i].script) =>
                i = NumTries /\ trace.res.ok /\ trace.res.msg.kind = "saved"
        /\ trace.res.msg.kind = "failed" =>
                /\ NumTries = Min(retry_count, Len(trace.servers))
                /\ \A i \in 1..NumTries : ScriptFails(Tries[i].script)
                /\ trace.res.msg.err = FailureReason(Tries[NumTries].script)

ThirdServerSucceedsWitness ==
    /\ prog = "fetch"
    /\ trace.called
    /\ trace.servers = ConfiguredServers
    /\ NumTries = 3
    /\ SawSentinel(Tries[1])
    /\ SawSentinel(Tries[2])
    /\ Tries[3].server = 3
    /\ trace.res.ok
    /\ trace.wrote

\* C8: in a retry round of download_all_stocks no target is re-submitted
\* whose outcome of the previous round was NoData: the failed set that
\* feeds the round holds no NoData entry.
\* (Fails: every non-success tuple is appended to failed_list.)
NoDataNotRetried ==
    (prog = "tick" /\ InBatch /\ retry_round >= 1) =>
        \A i \in 1..Len(failed_list) : failed_list[i].msg.kind # "nodata"

\* C9: the worker count of each round is at most that of the round before.
\* (Fails in download_pre_close_parallel for max_workers below the floor.)
WorkersNeverIncrease ==
    \A r \in 1..(Len(workersLog) - 1) : workersLog[r + 1] <= workersLog[r]

\* C10: a target counted as a success is never submitted again, so no row
\* of the universe is counted as a success more than once in a run.
\* (Fails for rows that share a stock_code, as in C1.)
SuccessCountedOnce ==
    prog = "tick" => \A i \in 1..Len(okCount) : okCount[i] <= 1

\* ---- helpers over a failure list
RECURSIVE NoDataCount(_)
NoDataCount(fl) ==
    IF fl = <<>> THEN 0
    ELSE (IF Head(fl).msg.kind = "nodata" THEN 1 ELSE 0) + NoDataCount(Tail(fl))

\* C11: when at least 90% of the targets of the universe returned NoData in
\* round 0 (9 of 10, say), download_all_stocks runs no retry round: while
\* the first retry round runs, the failure list of round 0 that feeds it
\* holds NoData for fewer than 90% of the table.
\* (Fails: line 234 skips only for more than 90% failures, and only when
\* the first entry of the failure list is a NoData.)
NoDataMajoritySkipsRetry ==
    (prog = "tick" /\ InBatch /\ retry_round = 1) =>
        10 * NoDataCount(failed_list) < 9 * Len(stocks_df)

\* ---- helpers over the history of a run of download_all_stocks
Rows == 1..Len(stocks_df)

\* the attempts of row i in rounds 0, 1 and 2 failed and its attempt in
\* round 3 succeeded
FailedThriceThenOk(i) ==
    hist.submits[i] = 4 /\ hist.fails[i] = 3 /\ hist.last[i].ok

DistinctCodes(codes) ==
    \A i, j \in 1..Len(codes) : codes[i] = codes[j] => i = j

EntriesOf(fl, c) == Cardinality({k \in 1..Len(fl) : fl[k].code = c})

RECURSIVE SumTo(_, _)
SumTo(f, n) == IF n = 0 THEN 0 ELSE f[n] + SumTo(f, n - 1)

\* C12 (as claimed): with max_retry = 3, a target that failed in rounds 0,
\* 1 and 2 is in the final failure list and is not counted as a success,
\* also when its attempt in round 3 succeeds.
\* (Fails: retry_round <= max_retry runs retry rounds 1, 2 and 3.)
ThirdRetrySuccessStaysFailed ==
    (prog = "tick" /\ max_retry = 3 /\ report.built) =>
        \A i \in Rows :
            (hist.submits[i] = 4 /\ hist.fails[i] >= 3) =>
                /\ okCount[i] = 0
                /\ EntriesOf(failed_list, stocks_df[i]) >= 1

\* C12 (amended): with max_retry = 3 and a table of distinct codes, a
\* target whose attempts in rounds 0, 1 and 2 failed and whose attempt in
\* round 3 succeeded is counted as a success in the report (once, and the
\* report's success count is the count of the successes) and has no entry
\* in the final failure list.
ThirdRetrySuccessCounts ==
    (prog = "tick" /\ max_retry = 3 /\ report.built /\ DistinctCodes(stocks_df)) =>
        \A i \in Rows :
            FailedThriceThenOk(i) =>
                /\ okCount[i] = 1
                /\ report.success = SumTo(okCount, Len(stocks_df))
                /\ EntriesOf(failed_list, stocks_df[i]) = 0

\* row 1 failed in rounds 0, 1 and 2 and succeeded in round 3; row 2 failed
\* in all four rounds and is the one entry of the final failure list
ThirdRetrySuccessWitness ==
    /\ prog = "tick"
    /\ max_retry = 3
    /\ report.built
    /\ stocks_df = PairTable
    /\ FailedThriceThenOk(1)
    /\ hist.fails[2] = 4
    /\ Len(failed_list) = 1
    /\ failed_list[1].code = stocks_df[2]
    /\ report.success = 1

\* ---- helpers over the probe
\* the configured servers whose probe answered
Answered == {sv \in Range(ConfiguredServers) : sv \in hist.alive}

PosIn(seq, x) == CHOOSE k \in 1..Len(seq) : seq[k] = x

\* seq lists exactly the members of S, once each, in configured order
ListsInConfiguredOrder(seq, S) ==
    /\ Range(seq) = S
    /\ Len(seq) = Cardinality(S)
    /\ \A i, j \in 1..Len(seq) :
          i < j => PosIn(ConfiguredServers, seq[i]) < PosIn(ConfiguredServers, seq[j])

\* C13: once a run of download_all_stocks has started it has probed
\* exactly once, in every round; the server list of every round and of
\* every server loop is the list of the configured servers whose probe
\* answered, in configured order, or the whole configured list when none
\* answered.
ProbedPoolUsedInAllRounds ==
    (prog = "tick" /\ pc # "start") =>
        /\ hist.probes = 1
        /\ pc # "aborted"
        /\ IF Answered = {}
           THEN TDX_SERVERS = ConfiguredServers
           ELSE ListsInConfiguredOrder(TDX_SERVERS, Answered)
        /\ \A pool \in hist.pools : pool = TDX_SERVERS

FilteredPoolInRetryWitness ==
    /\ prog = "tick"
    /\ retry_round = 2
    /\ pc = "batch"
    /\ hist.alive = {1, 3}
    /\ hist.pools = {<<1, 3>>}
    /\ \E t \in 1..Len(futures) : futures[t].st = "done"

\* C14: after every completed run of download_all_stocks the rows of
\* failed_stocks.csv in the output directory are the (code, reason) pairs
\* of the final failure list of that run, also when the directory held a
\* failed_stocks.csv before the run and also when the list is empty (a
\* missing file is read as a file without rows).
\* (Fails: line 310 writes the file only if failed_list is not empty.)
FailureArtifactMatchesReport ==
    (prog = "tick" /\ pc = "done") =>
        /\ failed_csv.rows = failed_list
        /\ failed_list # <<>> => failed_csv.present

\* ---- helpers over the futures of the current batch
Consumed == {u \in 1..Len(futures) : futures[u].st = "consumed"}

\* C15: in a _download_batch that was given a progress callback, the
\* callback has been called once per consumed future, the k-th call with
\* (k, number of submitted targets); whether or not the callback raises,
\* the batch goes on and success_count and failed_list count exactly the
\* consumed successes and failures.
CallbackOncePerCompletion ==
    (prog = "tick" /\ progress_callback # "None") =>
        /\ pc # "aborted"
        /\ Len(hist.callbacks) = Cardinality(Consumed)
        /\ \A k \in 1..Len(hist.callbacks) : hist.callbacks[k] = <<k, Len(futures)>>
        /\ batch_success = Cardinality({u \in Consumed : futures[u].res.ok})
        /\ Len(batch_failed) = Cardinality({u \in Consumed : ~futures[u].res.ok})

RaisingCallbackWitness ==
    /\ prog = "tick"
    /\ progress_callback = "raises"
    /\ Len(futures) = 2
    /\ AllConsumed
    /\ hist.callbacks = << <<1, 2>>, <<2, 2>> >>
    /\ batch_success = 1
    /\ Len(batch_failed) = 1

\* C16: in every step of a run of download_all_stocks, started with any
\* artifacts of earlier (complete or partial) runs on disk, no artifact
\* disappears, no artifact that is on disk is written again, and no call
\* that found its artifact on disk has contacted a server.
\* (Fails for rows that share a stock_code and run on two workers: both
\* pass the check of line 101 before either writes; the input of C1.)
ArtifactsGrowAndAreNeverRewritten ==
    [][/\ files \subseteq files'
       /\ \A c \in files : hist'.writes[c] = hist.writes[c]
       /\ hist'.wasted = 0]_vars

\* C17: in a run of download_pre_close_parallel a code has been requested
\* at most once per round started so far, so never more than
\* 1 + max_retries times, and a code that has a record in all_results is
\* not among the codes of a later batch.
\* (Fails for a stock_codes list that names a code twice.)
RequestedOncePerRound ==
    prog = "pre" =>
        /\ \A c \in Codes :
              /\ hist.requests[c] <= Len(workersLog)
              /\ hist.requests[c] <= 1 + max_retry
        /\ \A k \in 1..Len(all_results) : \A t \in 1..Len(futures) :
              futures[t].code # all_results[k].stock_code

\* ---- helpers over a recorded call of get_stock_pre_close_single
\* the response has status 200 and a value under f60 that is not '-'
ValidResponse(resp) ==
    /\ ~resp.raise
    /\ resp.status = 200
    /\ resp.hasData
    /\ resp.f60.present
    /\ ~resp.f60.dash

CodesOf(fs) == [t \in 1..Len(fs) |-> fs[t].code]

\* C18: get_stock_pre_close_single never raises and returns a record only
\* for a response with status 200 and a value under f60 that is not the
\* placeholder, the record carrying that value; a consumed call that
\* returned None has its code in the failed list of its batch, and that
\* list is the batch of the next retry round as long as a retry is left.
LookupFailureIsRetried ==
    prog = "pre" =>
        /\ trace.called =>
              /\ ~trace.res.raised
              /\ trace.res.ok => /\ ValidResponse(trace.scripts[1])
                                 /\ trace.res.msg.n = trace.scripts[1].f60.val
              /\ ~ValidResponse(trace.scripts[1]) => trace.res.msg.kind = "None"
        /\ \A t \in 1..Len(futures) :
              (futures[t].st = "consumed" /\ ~futures[t].res.ok) =>
                  \E k \in 1..Len(failed_codes) : failed_codes[k] = futures[t].code
        /\ pc = "sleep" => (failed # <<>> /\ retry_round < max_retry)
        /\ (InBatch /\ retry_round >= 1) =>
              /\ Len(futures) <= Len(failed)
              /\ CodesOf(futures) = SubSeq(failed, 1, Len(futures))
              /\ pc # "submitting" => CodesOf(futures) = failed
        /\ ((pc = "finish" \/ pc = "done") /\ failed # <<>>) => retry_round = max_retry

PlaceholderRetriedWitness ==
    /\ prog = "pre"
    /\ pc = "batch"
    /\ retry_round = 1
    /\ Len(futures) = 1
    /\ futures[1].st = "queued"
    /\ trace.called
    /\ trace.scripts = <<HttpResp(200, TRUE, F60Dash)>>
    /\ failed = <<futures[1].code>>

\* C19: the pool of every retry round has max(floor, half the workers of
\* the round before) workers, and no round has fewer workers than the
\* floor.
\* (Fails: download_all_stocks gives every round max_workers, and
\* download_pre_close_parallel computes every retry pool from max_workers,
\* not from the round before, and runs round 0 below the floor.)
WorkersHalveDownToFloor ==
    \A r \in 1..Len(workersLog) :
        /\ workersLog[r] >= FloorWorkers
        /\ r >= 2 => workersLog[r] = Max(FloorWorkers, workersLog[r - 1] \div 2)

\* C20: in download_all_stocks a retry round runs only on a non-empty
\* failure list of the round before and only for retry_round <= max_retry;
\* at most 1 + max_retry rounds are started and no row is submitted to
\* fetch_single_stock more often than rounds were started; with
\* max_retry = 0 only round 0 runs.
RetryRoundsBounded ==
    prog = "tick" =>
        /\ (InBatch /\ retry_round >= 1) =>
              (failed_list # <<>> /\ retry_round <= max_retry)
        /\ Len(workersLog) <= 1 + max_retry
        /\ \A i \in Rows :
              /\ hist.submits[i] <= Len(workersLog)
              /\ hist.submits[i] <= 1 + max_retry
        /\ max_retry = 0 => (Len(workersLog) <= 1 /\ retry_round <= 1)

LastRetryRoundWitness ==
    /\ prog = "tick"
    /\ max_retry = 3
    /\ pc = "batch"
    /\ retry_round = 3
    /\ Len(workersLog) = 4
    /\ hist.submits[1] = 4
    /\ futures[1].st = "running"
\* C21: with every connect and every page request returning, every run of
\* download_all_stocks eventually calls _generate_report
EveryRunReachesReport == (prog = "tick") => <>(hist.reports >= 1)

\* C22: every run of download_all_stocks that download_date_range starts
\* probes each server of the configured list, the ones an earlier date's
\* probe found dead included
EveryDateProbesConfiguredList ==
    (prog = "tick" /\ hist.probes >= 1) => hist.probed = Range(ConfiguredServers)

\* C23: in a run that gets past round 0, _generate_report is called exactly
\* once, and when it is called every fetch attempt submitted in any round
\* has returned and been consumed: no call is queued or running on a worker
ReportOnceAfterAllAttempts ==
    prog = "tick" =>
        /\ hist.reports <= 1
        /\ (pc = "done" \/ pc = "crashed") => hist.reports = 1
        /\ (pc = "report" \/ hist.reports = 1) =>
               /\ \A t \in 1..Len(futures) : futures[t].st = "consumed"
               /\ \A i \in 1..Len(stocks_df) :
                      hist.submits[i] = okCount[i] + hist.fails[i]

\* a report built after a first download and two retry rounds
ReportAfterRetriesWitness ==
    /\ prog = "tick"
    /\ pc = "done"
    /\ hist.reports = 1
    /\ Len(workersLog) = 3
    /\ \E i \in 1..Len(stocks_df) : hist.submits[i] = 3 /\ hist.fails[i] = 3

WorkerStates == {"running", "done"}

\* a step of a worker thread: a call starts, writes its artifact, or returns
WorkerStep ==
    \E t \in 1..Len(futures) :
        /\ t <= Len(futures')
        /\ futures'[t] # futures[t]
        /\ futures'[t].st \in WorkerStates

ConsumedWith(ok, c) ==
    {u \in Consumed : futures[u].res.ok = ok /\ futures[u].code = c}

\* the counters of the batch are those of the futures consumed so far
CountsMatchReturns ==
    /\ prog = "tick" =>
          /\ batch_success = Cardinality({u \in Consumed : futures[u].res.ok})
          /\ Len(batch_failed) = Cardinality({u \in Consumed : ~futures[u].res.ok})
          /\ \A c \in Codes :
                EntriesOf(batch_failed, c) = Cardinality(ConsumedWith(FALSE, c))
          /\ \A k \in 1..Len(batch_failed) :
                \E u \in ConsumedWith(FALSE, batch_failed[k].code) :
                    futures[u].res.msg = batch_failed[k].msg
    /\ prog = "pre" =>
          /\ \A c \in Codes :
                /\ Cardinality({k \in 1..Len(results) : results[k].stock_code = c})
                      = Cardinality(ConsumedWith(TRUE, c))
                /\ Cardinality({k \in 1..Len(failed_codes) : failed_codes[k] = c})
                      = Cardinality(ConsumedWith(FALSE, c))

\* C24: in _download_batch and _download_batch_internal no step of a worker
\* changes the success counter / result list or the failure list, and in
\* every interleaving of the workers they hold exactly one count or entry
\* per consumed call that returned success, respectively failure
CountersWrittenByConsumerOnly ==
    []CountsMatchReturns /\ [][WorkerStep => UNCHANGED batchVars]_vars

\* two workers: the second call was started, returned success and was
\* counted while the first call is still running
CountedWhileOtherRunsWitness ==
    /\ prog = "tick"
    /\ workers = 2
    /\ Len(futures) = 2
    /\ futures[1].st = "running"
    /\ futures[2].st = "consumed"
    /\ futures[2].res.ok
    /\ batch_success = 1

\* connections held open by the calls of the batch
OpenConnections == SumTo([t \in 1..Len(futures) |-> futures[t].conn.open], Len(futures))

\* C25: a call of fetch_single_stock holds a connection open only inside the
\* server-try that opened it (it is closed when the next server-try starts
\* and when the call has returned, whichever way the try ended), never two
\* at once; a call that is about to write its artifact, or has written it,
\* holds none; and the connections open at any instant are at most the
\* worker threads of the pool
ConnectionsClosedPerTry ==
    prog = "tick" =>
        /\ \A t \in 1..Len(futures) :
              /\ futures[t].conn.open <= 1
              /\ futures[t].conn.open = 1 =>
                    /\ futures[t].st = "running"
                    /\ futures[t].conn.script # NoScript
              /\ (futures[t].conn.closed \/ futures[t].ret # NoResult) =>
                    futures[t].conn.open = 0
        /\ OpenConnections <= workers

\* two workers, each with a connection open; the first call is in its
\* second server-try, after a try that ended with an exception
TwoConnectionsOpenWitness ==
    /\ prog = "tick"
    /\ workers = 2
    /\ Len(futures) = 2
    /\ futures[1].conn.open = 1
    /\ futures[1].conn.tried = 2
    /\ futures[1].conn.last_error = "exception"
    /\ futures[2].conn.open = 1

\* C26: in both programs every retry round is preceded by a pause: the
\* batches submitted so far are the first download and one retry batch per
\* completed pause
PauseBeforeEveryRetryRound ==
    Len(workersLog) >= 1 => hist.pauses = Len(workersLog) - 1

\* C27: in the final report of a run over distinct codes, every target is
\* in the failure list at most once, and an entry's reason is what the
\* target's last consumed attempt returned, not a reason of an earlier round
FinalReasonsAreLatest ==
    (prog = "tick" /\ pc = "done" /\ DistinctCodes(stocks_df)) =>
        /\ report.failed = Len(failed_list)
        /\ \A i \in 1..Len(stocks_df) : EntriesOf(failed_list, stocks_df[i]) <= 1
        /\ \A k \in 1..Len(failed_list) :
              \E i \in 1..Len(stocks_df) :
                  /\ stocks_df[i] = failed_list[k].code
                  /\ hist.last[i] = Returned(FALSE, failed_list[k].msg)

\* a target that failed in round 0 for a reason that is retried and was
\* answered "no data" in retry round 1: the report holds the later reason
LaterReasonReportedWitness ==
    /\ prog = "tick"
    /\ pc = "done"
    /\ Len(stocks_df) = 1
    /\ hist.fails[1] = 2
    /\ Len(failed_list) = 1
    /\ failed_list[1].msg.kind = "nodata"

\* C28: in every server-try the k-th request asks for offset (k-1)*B and the
\* k-th accumulated page is the answer to the k-th request; the records an
\* artifact is written with are those accumulated in the try that wrote
\* it, without the records of an earlier try of the call
ArtifactHoldsOneTry ==
    (prog = "fetch" /\ trace.called) =>
        /\ \A i \in 1..NumTries :
              LET r == Tries[i].r
              IN  /\ \A k \in 1..Len(r.offsets) : r.offsets[k] = (k - 1) * batch_size
                  /\ Len(r.all_data) <= Len(r.offsets)
                  /\ \A k \in 1..Len(r.all_data) :
                        r.all_data[k] =
                            GetHistoryTransactionData(Tries[i].script.pages, r.offsets[k])
        /\ trace.wrote =>
              /\ Tries[NumTries].r.kind = "saved"
              /\ trace.res.msg = Msg("saved", SumLens(Tries[NumTries].r.all_data), "None")

\* the first try accumulated a full page and then met the sentinel; the
\* second try saved its single short page: the artifact has 1 record
SecondTrySavesOwnPagesWitness ==
    /\ prog = "fetch"
    /\ trace.called
    /\ NumTries = 2
    /\ Tries[1].r.kind = "sentinel"
    /\ Tries[1].r.all_data = <<Page(batch_size)>>
    /\ Tries[1].r.offsets = <<0, batch_size>>
    /\ trace.wrote
    /\ trace.res.msg.n = 1

RowsOf(rows, c) == Cardinality({k \in 1..Len(rows) : rows[k].stock_code = c})
FailedOfCode(codes, c) == Cardinality({k \in 1..Len(codes) : codes[k] = c})

\* C29: when download_pre_close_parallel has returned for a list of distinct
\* codes, every input code is either in exactly one result row or once in
\* the final failed list, never both, and nothing else is in them:
\* len(all_results) + len(failed) = len(stock_codes)
EveryCodeAccountedOnce ==
    (prog = "pre" /\ pc = "done" /\ DistinctCodes(stock_codes)) =>
        /\ Len(all_results) + Len(failed) = Len(stock_codes)
        /\ \A i \in 1..Len(stock_codes) :
              RowsOf(all_results, stock_codes[i]) + FailedOfCode(failed, stock_codes[i]) = 1
        /\ \A k \in 1..Len(all_results) : all_results[k].stock_code \in Range(stock_codes)
        /\ \A k \in 1..Len(failed) : failed[k] \in Range(stock_codes)

\* two codes, the first one failed in the first download while the second
\* succeeded, and succeeded in the retry round: its row comes second
RetriedCodeAccountedWitness ==
    /\ prog = "pre"
    /\ pc = "done"
    /\ Len(stock_codes) = 2
    /\ DistinctCodes(stock_codes)
    /\ retry_round = 1
    /\ Len(all_results) = 2
    /\ all_results[1].stock_code = stock_codes[2]
    /\ failed = <<>>

\* C30: the secid a request of get_stock_pre_close_single is sent with is
\* namespace 1 followed by the code when the code starts with '6', and
\* namespace 0 followed by the code for every other code, whatever the
\* response is
AddressFollowsLeadingDigit ==
    (prog = "pre" /\ trace.called /\ Len(stock_codes) = 1) =>
        LET code == stock_codes[1]
            secid == trace.servers[1]
        IN  /\ Len(secid) = Len(code) + 1
            /\ Tail(secid) = code
            /\ Head(secid) = IF Len(code) > 0 /\ code[1] = 6 THEN 1 ELSE 0

\* a code of the Beijing exchange was looked up under namespace 0
BeijingCodeAddressWitness ==
    /\ prog = "pre"
    /\ trace.called
    /\ stock_codes = << <<8, 3>> >>
    /\ trace.servers = << <<0, 8, 3>> >>

\* line 234 with entry k of the round-0 failure list in first place, as
\* it is when the worker of that target is the first failure consumed
SkipRetryWithFirst(fl, k) ==
    /\ 10 * Len(fl) > 9 * Len(stocks_df)
    /\ HasNoDataText(fl[k].msg)

\* C31: once download_all_stocks has decided whether to skip the retry
\* rounds (failed_list is then the round-0 list, retry_round is 0 after a
\* skip and 1 otherwise), the decision is the one every other completion
\* order of the same round-0 outcomes would have led to
SkipDecisionIgnoresOrder ==
    (/\ prog = "tick"
     /\ max_retry >= 1
     /\ failed_list # <<>>
     /\ \/ retry_round = 0 /\ (pc = "report" \/ pc = "done")
        \/ retry_round = 1) =>
        \A k \in 1..Len(failed_list) :
            SkipRetryWithFirst(failed_list, k) = (retry_round = 0)

\* C32: when the report of a run over distinct codes is built, every target
\* that was counted as a success has its artifact on disk, every target of
\* the failure list has none, and the successes counted are those targets
ArtifactsMatchReport ==
    (/\ prog = "tick"
     /\ pc = "report" \/ pc = "done"
     /\ DistinctCodes(stocks_df)) =>
        /\ success_count = Cardinality({i \in 1..Len(stocks_df) : okCount[i] >= 1})
        /\ \A i \in 1..Len(stocks_df) :
              /\ okCount[i] >= 1 => stocks_df[i] \in files
              /\ EntriesOf(failed_list, stocks_df[i]) >= 1 => stocks_df[i] \notin files
              /\ okCount[i] >= 1 \/ EntriesOf(failed_list, stocks_df[i]) >= 1

\* the report of a run in which the first target was saved in the retry
\* round and the second was answered "no data" twice
SavedAndNoDataReportedWitness ==
    /\ prog = "tick"
    /\ pc = "done"
    /\ stocks_df = PairTable
    /\ report.success = 1
    /\ hist.fails[1] = 1
    /\ okCount[1] = 1
    /\ hist.writes[stocks_df[1]] = 1
    /\ files = {stocks_df[1]}
    /\ hist.fails[2] = 2
    /\ failed_list = <<[code |-> stocks_df[2], msg |-> Msg("nodata", 0, "None")]>>

====
